---- MODULE Spec2Model ----
(***************************************************************************)
(* AGStreamer: voice-channel connector.                                    *)
(*                                                                         *)
(*   server : session store, daily usage quota, expiry timers, stale sweep *)
(*            (src/server/routes.ts, src/server/storage.ts)                *)
(*   bot    : AudioBotManager, supervisor of the python worker             *)
(*            (src/server/storage.ts)                                      *)
(*   agora  : the useAgora hook, connection state machine and file audio   *)
(*            (src/client/src/lib/agora-types.ts)                          *)
(*   page   : the VoiceBot page, session / countdown / heartbeat           *)
(*            (src/unnamed/part_000)                                       *)
(*                                                                         *)
(* Each part has its own specification over the shared variables; the      *)
(* variables of the other parts stay at their initial values.              *)
(***************************************************************************)
EXTENDS Integers, Sequences, FiniteSets, TLC

\* ------------------------------------------------------------------ bounds
\* The clock runs from 0 to MaxTime; one tick is the smallest step of the
\* wall clock (Date.now()), and the durations below are scaled to it.
MaxTime == 2
\* Ticks per UTC day: DateKey changes every DayLen ticks.
DayLen == 2
\* Number of session ids (crypto.randomUUID() values) the model hands out.
MaxSessions == 3
\* Sessions alive in the store at one time.
MaxLive == 1
\* The same two bounds for the runs that are about the session store rather
\* than the quota (SpecStore): session ids handed out, sessions alive at one
\* time.
MaxStoreSessions == 2
MaxStoreLive == 2
\* createSession requests suspended at an await at one time.
MaxInflight == 2
\* Worker processes the supervisor spawns in one run.
MaxWorkers == 3
\* File tracks the hook creates in one run.
MaxTracks == 2
\* leave() calls (and handleLeave() calls) in progress at one time.
MaxLeaveCalls == 2
\* Microphone tracks open (created and not closed) at one time.
MaxMicTracks == 2
\* handleJoin() calls awaiting their session request at one time.
MaxPosting == 1
\* sendCommandWithResponse() calls made
MaxCalls == 3
\* handleJoin() calls awaiting their session request, where they may overlap.
MaxJoinAttempts == 2

\* --------------------------------------------------------------- constants
MAX_CONNECTIONS_PER_DAY == 3
\* MAX_SESSION_DURATION_MS, in ticks of the model clock.
MAX_SESSION_DURATION_MS == 2
\* The stale threshold of the sweep (5 * 60 * 1000 ms), in ticks.
STALE_THRESHOLD_MS == 1

\* agora-types.ts 467: the checks the readiness poll makes before it gives up.
maxAttempts == 50

Identities == {"u1", "u2"}
\* Requests in flight at the same time can take the ids handed out beyond
\* MaxSessions.
SessionIds == 1..(MaxSessions + MaxInflight - 1)

VARIABLES
  \* ---- server (routes.ts, storage.ts)
  now,          \* the wall clock
  dailyUsage,   \* MemStorage.dailyUsage: identity -> [dateKey, count]
  sessions,     \* the sessions map: id -> VoiceSession
  timers,       \* armed expiry timeouts: session id -> due time
  nextId,       \* ids handed out so far
  resp,         \* the last HTTP response
  issued,       \* history: identity -> day -> sessions issued under that day-key
  microtasks,   \* continuations of createSession handlers suspended at an await
  \* ---- bot (storage.ts, AudioBotManager)
  process,       \* this.process: 0 (null) or the worker the handle refers to
  workers,       \* worker -> "none" | "running" | "dying" | "closed"
  readySent,     \* worker -> it has written its ready message
  startResult,   \* worker -> outcome of the start() call that spawned it
  eventHandlers, \* the start() calls whose readyHandler is registered
  sdkAvailable,  \* this.sdkAvailable
  lastError,     \* this.lastError
  botStatus,     \* this.status (isConnected, isPlaying)
  shutdownPc,    \* position of a shutdown() call
  botResp,       \* what the last step of the supervisor did
  calls,            \* sendCommandWithResponse() call -> its promise and timer
  pendingCallbacks, \* this.pendingCallbacks: response type -> call (0: no entry)
  stdin,            \* commands written to the worker and not answered yet
  cmdResp,          \* what the last step of the command channel did
  \* ---- agora (agora-types.ts, useAgora) and the provider SDK
  agora,         \* the hook's state and refs
  rtc,           \* window.AgoraRTC, the client and the file tracks
  joinCall,      \* position of a join() call
  leaveCalls,    \* slot -> position of a leave() call
  audioCalls,    \* positions of loadAudioFile / playAudio / stopAudio calls
  lastEvent,     \* history: curState of the last connection-state-change
  lastWasLeave,  \* history: the last call of the hook was leave()
  hookResp,      \* what the last step of the hook did
  \* ---- page (part_000, VoiceBot)
  page,              \* sessionId, timeRemaining, heartbeat and countdown timers
  posting,           \* handleJoin calls awaiting POST /api/sessions
  handleLeaveCalls,  \* slot -> position of a handleLeave() call
  rendered,          \* the effect dependencies of the last commit
  pageResp           \* what the last step of the page did

serverVars == <<now, dailyUsage, sessions, timers, nextId, resp, issued,
                microtasks>>
cmdVars == <<calls, pendingCallbacks, stdin, cmdResp>>
botVars == <<process, workers, readySent, startResult, eventHandlers,
             sdkAvailable, lastError, botStatus, shutdownPc, botResp, cmdVars>>

agoraVars == <<agora, rtc, joinCall, leaveCalls, audioCalls, lastEvent,
               lastWasLeave, hookResp>>
pageVars == <<page, posting, handleLeaveCalls, rendered, pageResp>>

vars == <<serverVars, botVars, agoraVars, pageVars>>

\* A step of one part leaves the other parts alone.
ServerStep == UNCHANGED <<botVars, agoraVars, pageVars>>
BotStep == UNCHANGED <<serverVars, agoraVars, pageVars, cmdVars>>
AgoraStep == UNCHANGED <<serverVars, botVars, pageVars>>

\* A handler without awaits runs in an event-loop turn of its own: no
\* continuation is pending when it starts, and it leaves none.
Quiescent == microtasks = << >> /\ UNCHANGED microtasks /\ ServerStep

\* ================================================================== server

Days == 0..((MaxTime + 1) \div DayLen)

\* storage.ts getTodayDateKey(): the UTC date of the clock read t.
getTodayDateKey(t) == t \div DayLen

\* MemStorage.getDailyUsage at a clock read t: lazy rollover.
getDailyUsage(usage, u, t) ==
  IF u \notin DOMAIN usage \/ usage[u].dateKey # getTodayDateKey(t)
    THEN [dateKey |-> getTodayDateKey(t), count |-> 0]
    ELSE usage[u]

\* MemStorage.incrementDailyUsage: the date key is read at t1 (line 40), the
\* current usage at t2 (line 41, inside getDailyUsage), and the entry is
\* overwritten.
IncrementedUsage(usage, u, t1, t2) ==
  [dateKey |-> getTodayDateKey(t1), count |-> getDailyUsage(usage, u, t2).count + 1]

incrementDailyUsage(usage, u, t1, t2) ==
  [x \in DOMAIN usage \cup {u} |->
     IF x = u THEN IncrementedUsage(usage, u, t1, t2) ELSE usage[x]]

\* The quota test of POST /api/sessions (routes.ts line 277).
QuotaReached(count) == count >= MAX_CONNECTIONS_PER_DAY

\* SessionLimitStatus.remainingConnections (routes.ts lines 260, 316).
remainingConnections(count) ==
  IF MAX_CONNECTIONS_PER_DAY - count > 0 THEN MAX_CONNECTIONS_PER_DAY - count ELSE 0

\* resp is the HTTP response the last step sent (NoResp when it sent none).
\* prior and oneDay are history: the sessions issued to the identity, before
\* this response, under the day-key of the request (the key it is counted
\* under, or the key of its quota test when it is rejected), and whether all
\* clock reads of the handler fell in one day-key.
NoResp == [op |-> "none", status |-> 0, user |-> "none",
           usedToday |-> 0, remaining |-> 0, prior |-> 0, oneDay |-> TRUE,
           id |-> 0]

Reply(op, status, u, used, rem, prior, oneDay) ==
  [op |-> op, status |-> status, user |-> u,
   usedToday |-> used, remaining |-> rem, prior |-> prior, oneDay |-> oneDay,
   id |-> 0]

\* The outcome of a step that is about the session id.
SessionReply(op, status, id) == [NoResp EXCEPT !.op = op, !.status = status, !.id = id]

\* A handler reads the clock several times; the clock may step once while it
\* runs.  Read number i of a handler whose step falls before read p sees the
\* stepped clock.
ReadAt(i, p) == IF i >= p THEN now + 1 ELSE now

Drop(f, ids) == [x \in DOMAIN f \ ids |-> f[x]]

NewSession(u, tNow, tJoined, tActivity, id) ==
  [id |-> id, channelId |-> "ch1", userId |-> u,
   joinedAt |-> tJoined, lastActivity |-> tActivity,
   expiresAt |-> tNow + MAX_SESSION_DURATION_MS,
   expiryTimeout |-> id]

\* Variant of the rejection that counts the attempt (increment before the test).
CreateSessionRejectedCounting(u, p) ==
  LET usage == getDailyUsage(dailyUsage, u, ReadAt(1, p)) IN
  /\ QuotaReached(usage.count)
  /\ resp' = Reply("create", 429, u, usage.count, 0,
                   issued[u][getTodayDateKey(ReadAt(1, p))], TRUE)
  /\ dailyUsage' = incrementDailyUsage(dailyUsage, u, ReadAt(1, p), ReadAt(1, p))
  /\ UNCHANGED <<sessions, timers, nextId, issued>>

\* POST /api/sessions, rejected: the usage read at line 276 has reached the limit.
CreateSessionRejected(u, p) ==
  LET usage == getDailyUsage(dailyUsage, u, ReadAt(1, p)) IN
  /\ QuotaReached(usage.count)
  /\ resp' = Reply("create", 429, u, usage.count, 0,
                   issued[u][getTodayDateKey(ReadAt(1, p))], TRUE)
  /\ UNCHANGED <<dailyUsage, sessions, timers, nextId, issued>>

\* POST /api/sessions, accepted: clock reads 1 (usage, line 276), 2 (Date.now(),
\* line 292), 3 (joinedAt), 4 (lastActivity), 5 (date key of the increment,
\* storage.ts line 40) and 6 (usage inside the increment, line 41).
CreateSessionAccepted(u, p) ==
  LET usage == getDailyUsage(dailyUsage, u, ReadAt(1, p))
      id == nextId + 1
      updated == IncrementedUsage(dailyUsage, u, ReadAt(5, p), ReadAt(6, p))
  IN
  /\ ~QuotaReached(usage.count)
  /\ nextId' = id
  /\ sessions' = [x \in DOMAIN sessions \cup {id} |->
                    IF x = id
                      THEN NewSession(u, ReadAt(2, p), ReadAt(3, p), ReadAt(4, p), id)
                      ELSE sessions[x]]
  /\ timers' = [x \in DOMAIN timers \cup {id} |->
                  IF x = id THEN ReadAt(4, p) + MAX_SESSION_DURATION_MS ELSE timers[x]]
  /\ dailyUsage' = incrementDailyUsage(dailyUsage, u, ReadAt(5, p), ReadAt(6, p))
  /\ issued' = [issued EXCEPT ![u][updated.dateKey] = @ + 1]
  /\ resp' = Reply("create", 201, u, updated.count,
                   remainingConnections(updated.count),
                   issued[u][updated.dateKey],
                   getTodayDateKey(ReadAt(1, p)) = getTodayDateKey(ReadAt(6, p)))

\* POST /api/sessions (routes.ts 270-341) for identity u, in a run that hands
\* out at most `ids` session ids and keeps at most `live` sessions alive.
CreateSessionWithin(ids, live) ==
  \E u \in Identities, p \in 1..7 :
    /\ p <= 6 => now < MaxTime
    /\ now' = IF p <= 6 THEN now + 1 ELSE now
    /\ \/ CreateSessionRejected(u, p)
       \/ /\ nextId < ids
          /\ Cardinality(DOMAIN sessions) < live
          /\ CreateSessionAccepted(u, p)
    /\ Quiescent

CreateSession == CreateSessionWithin(MaxSessions, MaxLive)

StoreCreateSession == CreateSessionWithin(MaxStoreSessions, MaxStoreLive)

\* A heartbeat that re-arms the expiry timeout of its session.
HeartbeatRearming ==
  \E id \in SessionIds :
    /\ id <= nextId
    /\ IF id \notin DOMAIN sessions
         THEN /\ resp' = SessionReply("heartbeat", 404, id)
              /\ UNCHANGED <<sessions, timers>>
         ELSE /\ sessions' = [sessions EXCEPT ![id].lastActivity = now]
              /\ timers' = [timers EXCEPT ![id] = now + MAX_SESSION_DURATION_MS]
              /\ resp' = SessionReply("heartbeat", 200, id)
    /\ UNCHANGED <<now, dailyUsage, nextId, issued>>
    /\ Quiescent

\* A heartbeat that also extends the session.
HeartbeatUpdateExtending(s, t) ==
  [s EXCEPT !.lastActivity = t, !.expiresAt = t + MAX_SESSION_DURATION_MS]

\* POST /api/sessions/:sessionId/heartbeat (routes.ts 344-360).
HeartbeatUpdate(s, t) == [s EXCEPT !.lastActivity = t]

Heartbeat ==
  \E id \in SessionIds :
    /\ id <= nextId
    /\ IF id \notin DOMAIN sessions
         THEN /\ resp' = SessionReply("heartbeat", 404, id)
              /\ UNCHANGED sessions
         ELSE /\ sessions' = [sessions EXCEPT ![id] = HeartbeatUpdate(@, now)]
              /\ resp' = SessionReply("heartbeat", 200, id)
    /\ UNCHANGED <<now, dailyUsage, timers, nextId, issued>>
    /\ Quiescent

\* An endSession that leaves the expiry timeout of its session armed.
EndSessionKeepingTimer ==
  \E id \in SessionIds :
    /\ id <= nextId
    /\ IF id \notin DOMAIN sessions
         THEN /\ resp' = SessionReply("end", 404, id)
              /\ UNCHANGED sessions
         ELSE /\ sessions' = Drop(sessions, {id})
              /\ resp' = SessionReply("end", 200, id)
    /\ UNCHANGED <<now, dailyUsage, timers, nextId, issued>>
    /\ Quiescent

\* An endSession that gives the connection of the ended session back.
EndSessionRefunding ==
  \E id \in SessionIds :
    /\ id <= nextId
    /\ IF id \notin DOMAIN sessions
         THEN /\ resp' = SessionReply("end", 404, id)
              /\ UNCHANGED <<sessions, timers, dailyUsage>>
         ELSE /\ timers' = Drop(timers, {sessions[id].expiryTimeout})
              /\ sessions' = Drop(sessions, {id})
              /\ dailyUsage' = [u \in DOMAIN dailyUsage |->
                   IF dailyUsage[u].count > 0
                     THEN [dailyUsage[u] EXCEPT !.count = @ - 1]
                     ELSE dailyUsage[u]]
              /\ resp' = SessionReply("end", 200, id)
    /\ UNCHANGED <<now, nextId, issued>>
    /\ Quiescent

\* DELETE /api/sessions/:sessionId (routes.ts 363-379).
EndSession ==
  \E id \in SessionIds :
    /\ id <= nextId
    /\ IF id \notin DOMAIN sessions
         THEN /\ resp' = SessionReply("end", 404, id)
              /\ UNCHANGED <<sessions, timers>>
         ELSE /\ timers' = Drop(timers, {sessions[id].expiryTimeout})
              /\ sessions' = Drop(sessions, {id})
              /\ resp' = SessionReply("end", 200, id)
    /\ UNCHANGED <<now, dailyUsage, nextId, issued>>
    /\ Quiescent

\* GET /api/sessions/limits (routes.ts 255-267).
GetLimits ==
  \E u \in Identities :
    LET usage == getDailyUsage(dailyUsage, u, now) IN
    /\ resp' = Reply("limits", 200, u, usage.count,
                     remainingConnections(usage.count),
                     issued[u][getTodayDateKey(now)], TRUE)
    /\ UNCHANGED <<now, dailyUsage, sessions, timers, nextId, issued>>
    /\ Quiescent

\* The expiry timeout armed at creation fires (routes.ts 305-308): it deletes
\* the session of its id.  A timeout never fires early; it may fire late.
ExpiryTimeoutFires ==
  \E id \in DOMAIN timers :
    /\ now >= timers[id]
    /\ sessions' = Drop(sessions, {id})
    /\ timers' = Drop(timers, {id})
    /\ resp' = SessionReply("expiry", 0, id)
    /\ UNCHANGED <<now, dailyUsage, nextId, issued>>
    /\ Quiescent

\* A sweep that goes by the age of the session instead of its last activity.
IsStaleByAge(s, t) == s.joinedAt < t - STALE_THRESHOLD_MS

\* The stale sweep (routes.ts 421-432).
IsStale(s, t) == s.lastActivity < t - STALE_THRESHOLD_MS

StaleSweep ==
  LET stale == {id \in DOMAIN sessions : IsStale(sessions[id], now)} IN
  /\ stale # {}
  /\ timers' = Drop(timers, {sessions[id].expiryTimeout : id \in stale})
  /\ sessions' = Drop(sessions, stale)
  /\ resp' = SessionReply("sweep", 0, 0)
  /\ UNCHANGED <<now, dailyUsage, nextId, issued>>
  /\ Quiescent

\* The wall clock advances.
Tick ==
  /\ now < MaxTime
  /\ now' = now + 1
  /\ resp' = NoResp
  /\ UNCHANGED <<dailyUsage, sessions, timers, nextId, issued, microtasks>>
  /\ ServerStep

ServerInit ==
  /\ now = 0
  /\ dailyUsage = << >>
  /\ sessions = << >>
  /\ timers = << >>
  /\ nextId = 0
  /\ resp = NoResp
  /\ issued = [u \in Identities |-> [d \in Days |-> 0]]
  /\ microtasks = << >>

\* ===================================================================== bot
\* AudioBotManager (storage.ts 117-443).  A worker is one spawned python
\* process; the start() call that spawned worker w owns the closure
\* variables `resolved`, `timeout` and `readyHandler` of that worker, so the
\* calls are indexed by their worker.

Workers == 1..MaxWorkers

\* msg.error of a ready message: absent ("none") or the worker's diagnostic.
Diagnostics == {"none", "No module named agora"}

NoError == [kind |-> "none", detail |-> "none"]
BotError(kind, detail) == [kind |-> kind, detail |-> detail]

\* storage.ts 251-253: lastError of a ready message without the SDK.
SdkUnavailableError(botError) ==
  IF botError # "none"
    THEN BotError("SDK not available: ", botError)
    ELSE BotError("Agora Python SDK not available", "none")

NoBotResp == [op |-> "none", worker |-> 0, sdk |-> TRUE, error |-> "none",
              result |-> "none"]
BotReply(op, w, sdk, err, result) ==
  [op |-> op, worker |-> w, sdk |-> sdk, error |-> err, result |-> result]

\* storage.ts 137-139.  Every kill() in the class is followed by
\* `this.process = null`, so a non-null handle is never a killed one.
isRunning == process # 0

\* ChildProcess.kill() on the handle h: a running worker starts to die; its
\* close event comes later.
Kill(ws, h) ==
  IF h # 0 /\ ws[h] = "running" THEN [ws EXCEPT ![h] = "dying"] ELSE ws

\* storage.ts 185-192 resolveOnce of the start() call of worker w.
resolveOnce(res, w, value) ==
  IF res[w] = "pending" THEN [res EXCEPT ![w] = value] ELSE res

\* storage.ts 169-269 start(), up to the return of the promise.
Start ==
  /\ IF isRunning
       THEN /\ botResp' = BotReply("start", process, TRUE, "none", "true")
            /\ UNCHANGED <<process, workers, readySent, startResult,
                           eventHandlers, sdkAvailable, lastError>>
       ELSE \E scriptExists \in BOOLEAN :
              IF ~scriptExists
                THEN /\ lastError' = BotError("Python bot script not found", "none")
                     /\ botResp' = BotReply("start", 0, TRUE, "none", "false")
                     /\ UNCHANGED <<process, workers, readySent, startResult,
                                    eventHandlers, sdkAvailable>>
                ELSE \E w \in Workers :
                       /\ workers[w] = "none"
                       /\ \A v \in Workers : v < w => workers[v] # "none"
                       /\ process' = w
                       /\ workers' = [workers EXCEPT ![w] = "running"]
                       /\ startResult' = [startResult EXCEPT ![w] = "pending"]
                       /\ eventHandlers' = eventHandlers \cup {w}
                       /\ botResp' = BotReply("start", w, TRUE, "none", "pending")
                       /\ UNCHANGED <<readySent, sdkAvailable, lastError>>
  /\ UNCHANGED <<botStatus, shutdownPc>>
  /\ BotStep

\* storage.ts 207-222: worker w has exited (by itself or after a kill) and
\* its close event is handled.
CloseEvent ==
  \E w \in Workers, code \in {"0", "1"} :
    /\ workers[w] \in {"running", "dying"}
    /\ workers' = [workers EXCEPT ![w] = "closed"]
    /\ process' = 0
    /\ botStatus' = [isConnected |-> FALSE, isPlaying |-> FALSE]
    /\ IF startResult[w] = "pending"
         THEN /\ sdkAvailable' = FALSE
              /\ lastError' = IF lastError = NoError
                                THEN BotError("Bot process exited with code ", code)
                                ELSE lastError
              /\ startResult' = resolveOnce(startResult, w, "false")
              /\ eventHandlers' = eventHandlers \ {w}
         ELSE UNCHANGED <<sdkAvailable, lastError, startResult, eventHandlers>>
    /\ botResp' = BotReply("close", w, TRUE, "none", startResult'[w])
    /\ UNCHANGED <<readySent, shutdownPc>>
    /\ BotStep

\* storage.ts 224-229 and 207-222: worker w could not be spawned.  Its error
\* event is handled and, in the same turn, its close event (the call is
\* resolved by then, so the close handler only clears the handle and the
\* mirrored status).
ErrorEvent ==
  \E w \in Workers :
    /\ workers[w] = "running"
    /\ ~readySent[w]
    /\ workers' = [workers EXCEPT ![w] = "closed"]
    /\ process' = 0
    /\ lastError' = BotError("Bot process error: ", "spawn")
    /\ startResult' = resolveOnce(startResult, w, "false")
    /\ eventHandlers' = eventHandlers \ {w}
    /\ botStatus' = [isConnected |-> FALSE, isPlaying |-> FALSE]
    /\ botResp' = BotReply("error", w, TRUE, "none", startResult'[w])
    /\ UNCHANGED <<readySent, sdkAvailable, shutdownPc>>
    /\ BotStep

\* storage.ts 232-239: the 10 s timer of the start() call of worker w fires
\* (resolveOnce clears it, so it fires only while the call is unresolved).
StartTimeout ==
  \E w \in Workers :
    /\ startResult[w] = "pending"
    /\ lastError' = BotError("Bot process failed to start within timeout", "none")
    /\ workers' = Kill(workers, process)
    /\ process' = 0
    /\ startResult' = resolveOnce(startResult, w, "false")
    /\ eventHandlers' = eventHandlers \ {w}
    /\ botResp' = BotReply("timeout", w, TRUE, "none", "false")
    /\ UNCHANGED <<readySent, sdkAvailable, botStatus, shutdownPc>>
    /\ BotStep

\* storage.ts 241-266 readyHandler, run by handleMessage (349-356) for every
\* registered handler on the ready message of worker w.  All handlers see
\* the same message: they write the same flags and the same lastError, the
\* first one kills whatever this.process refers to, and each resolves its
\* own start() call.
ReadyMessage ==
  \E w \in Workers, sdk \in BOOLEAN, err \in Diagnostics :
    /\ workers[w] = "running"
    /\ ~readySent[w]
    /\ sdk => err = "none"
    /\ readySent' = [readySent EXCEPT ![w] = TRUE]
    /\ IF eventHandlers = {}
         THEN UNCHANGED <<process, workers, startResult, sdkAvailable, lastError>>
         ELSE /\ sdkAvailable' = sdk
              /\ lastError' = IF sdk THEN NoError ELSE SdkUnavailableError(err)
              /\ workers' = IF sdk THEN workers ELSE Kill(workers, process)
              /\ process' = IF sdk THEN process ELSE 0
              /\ startResult' = [v \in Workers |->
                   IF v \in eventHandlers
                     THEN resolveOnce(startResult, v, IF sdk THEN "true" ELSE "false")[v]
                     ELSE startResult[v]]
    /\ eventHandlers' = {}
    /\ botResp' = BotReply("ready", w, sdk, err, startResult'[w])
    /\ UNCHANGED <<botStatus, shutdownPc>>
    /\ BotStep

\* storage.ts 287-315 handleMessage: a status or playback message of a
\* worker that has completed its handshake updates the mirrored status.
StatusMessage ==
  \E w \in Workers, type \in {"connected", "disconnected",
                              "playback_started", "playback_stopped"} :
    /\ workers[w] = "running"
    /\ readySent[w]
    /\ botStatus' =
         CASE type = "connected" -> [botStatus EXCEPT !.isConnected = TRUE]
           [] type = "disconnected" -> [botStatus EXCEPT !.isConnected = FALSE]
           [] type = "playback_started" -> [botStatus EXCEPT !.isPlaying = TRUE]
           [] OTHER -> [botStatus EXCEPT !.isPlaying = FALSE]
    /\ botResp' = BotReply("status", w, TRUE, "none", "none")
    /\ UNCHANGED <<process, workers, readySent, startResult, eventHandlers,
                   sdkAvailable, lastError, shutdownPc>>
    /\ BotStep

\* storage.ts 436-438 shutdown(): with a handle it sends quit and waits for
\* the response or 5 s; without one it returns.
ShutdownBegin ==
  /\ shutdownPc = "idle"
  /\ shutdownPc' = IF process # 0 THEN "quit" ELSE "idle"
  /\ botResp' = BotReply("shutdown", process, TRUE, "none",
                         IF process # 0 THEN "pending" ELSE "done")
  /\ UNCHANGED <<process, workers, readySent, startResult, eventHandlers,
                 sdkAvailable, lastError, botStatus>>
  /\ BotStep

\* storage.ts 439-440: after the wait, `this.process.kill()` and the handle
\* is cleared; with the handle cleared in the meantime the call throws.
ShutdownEnd ==
  /\ shutdownPc = "quit"
  /\ shutdownPc' = "idle"
  /\ workers' = Kill(workers, process)
  /\ process' = 0
  /\ botResp' = BotReply("shutdown", process, TRUE, "none",
                         IF process # 0 THEN "done" ELSE "throws")
  /\ UNCHANGED <<readySent, startResult, eventHandlers, sdkAvailable,
                 lastError, botStatus>>
  /\ BotStep

BotInit ==
  /\ process = 0
  /\ workers = [w \in Workers |-> "none"]
  /\ readySent = [w \in Workers |-> FALSE]
  /\ startResult = [w \in Workers |-> "none"]
  /\ eventHandlers = {}
  /\ sdkAvailable = FALSE
  /\ lastError = NoError
  /\ botStatus = [isConnected |-> FALSE, isPlaying |-> FALSE]
  /\ shutdownPc = "idle"
  /\ botResp = NoBotResp

\* ------------------------------------------------------- command channel
\* sendCommandWithResponse() and handleMessage() (storage.ts 287-394).  A
\* message type is the list of the words its name is made of
\* (`join_response` is <<"join", "response">>).  Timers fire at any time
\* while armed; the worker answers the commands it has read in their
\* order, at any time, or not at all.

CallIds == 1..MaxCalls

\* storage.ts 396-442: the commands (join: 30 s, quit: 5 s).
Commands == {"join", "quit"}

ResponseType(command) == <<command, "response">>

\* The messages the worker writes without being asked.
UnsolicitedTypes == {<<"status">>, <<"progress">>, <<"playback", "started">>,
                     <<"playback", "stopped">>, <<"log">>}

\* storage.ts 339: responseType.endsWith("_response").
endsWithResponse(type) == type[Len(type)] = "response"

NoCall == [command |-> "none", pc |-> "none", timeout |-> FALSE,
           value |-> 0, resolves |-> 0]

NoCmdResp == [op |-> "none", call |-> 0, type |-> << >>, answers |-> 0,
              delivered |-> 0]

\* resolve(value) of the promise of call c: only the first call of resolve
\* settles the promise.
Resolve(cs, c, value) ==
  IF cs[c].pc = "pending"
    THEN [cs EXCEPT ![c].pc = "resolved", ![c].value = value,
                    ![c].resolves = @ + 1]
    ELSE [cs EXCEPT ![c].resolves = @ + 1]

\* A null result.
Null == -1

\* storage.ts 359-394: sendCommandWithResponse(command, responseType,
\* timeoutMs).  The timer is armed, the callback registered under the
\* response type (replacing an entry of that type), and the command
\* written; `written` is the result of sendCommand(): a stdin to write to
\* and a write that does not throw.
SendCommandWithResponse ==
  \E c \in CallIds, command \in Commands, written \in BOOLEAN :
    /\ calls[c].pc = "none"
    /\ \A b \in CallIds : b < c => calls[b].pc # "none"
    /\ LET type == ResponseType(command)
           armed == [calls EXCEPT ![c] = [command |-> command, pc |-> "pending",
                                          timeout |-> TRUE, value |-> 0,
                                          resolves |-> 0]]
       IN IF written
            THEN /\ calls' = armed
                 /\ pendingCallbacks' = [pendingCallbacks EXCEPT ![type] = c]
                 /\ stdin' = Append(stdin, c)
            ELSE /\ calls' = Resolve([armed EXCEPT ![c].timeout = FALSE], c, Null)
                 /\ pendingCallbacks' = [pendingCallbacks EXCEPT ![type] = 0]
                 /\ stdin' = stdin
    /\ cmdResp' = [NoCmdResp EXCEPT !.op = "send", !.call = c]
    /\ UNCHANGED <<process, workers, readySent, startResult, eventHandlers,
                   sdkAvailable, lastError, botStatus, shutdownPc, botResp>>
    /\ UNCHANGED <<serverVars, agoraVars, pageVars>>

\* storage.ts 378-381: the timer of call c fires.
CommandTimeout ==
  \E c \in CallIds :
    /\ calls[c].timeout
    /\ pendingCallbacks' =
         [pendingCallbacks EXCEPT ![ResponseType(calls[c].command)] = 0]
    /\ calls' = Resolve([calls EXCEPT ![c].timeout = FALSE], c, Null)
    /\ cmdResp' = [NoCmdResp EXCEPT !.op = "timeout", !.call = c]
    /\ UNCHANGED stdin
    /\ UNCHANGED <<process, workers, readySent, startResult, eventHandlers,
                   sdkAvailable, lastError, botStatus, shutdownPc, botResp>>
    /\ UNCHANGED <<serverVars, agoraVars, pageVars>>

\* storage.ts 289-336: the switch of handleMessage on the mirrored status.
MirrorStatus(status, type, arg) ==
  CASE type = <<"status">> /\ arg \in {"connected", "disconnected"} ->
         [status EXCEPT !.isConnected = arg = "connected"]
    [] type = <<"playback", "started">> -> [status EXCEPT !.isPlaying = TRUE]
    [] type = <<"playback", "stopped">> -> [status EXCEPT !.isPlaying = FALSE]
    [] OTHER -> status

\* A handleMessage that leaves the callback it calls in the map.
handleMessageKeepingCallback(type, arg, answers) ==
  LET callback == IF endsWithResponse(type) THEN pendingCallbacks[type] ELSE 0
  IN /\ botStatus' = MirrorStatus(botStatus, type, arg)
     /\ IF callback # 0
          THEN /\ UNCHANGED pendingCallbacks
               /\ calls' = Resolve([calls EXCEPT ![callback].timeout = FALSE],
                                   callback, answers)
          ELSE UNCHANGED <<calls, pendingCallbacks>>
     /\ cmdResp' = [op |-> "message", call |-> 0, type |-> type,
                    answers |-> answers, delivered |-> callback]

\* storage.ts 287-357 handleMessage(msg) for a message of the given type:
\* the status switch, then the callback registered under a response type
\* (383-386: it clears the timer of its call and resolves it with msg).
\* arg is msg.status of a status message; `answers` is the call whose
\* command the worker answers with msg.
handleMessage(type, arg, answers) ==
  LET callback == IF endsWithResponse(type) THEN pendingCallbacks[type] ELSE 0
  IN /\ botStatus' = MirrorStatus(botStatus, type, arg)
     /\ IF callback # 0
          THEN /\ pendingCallbacks' = [pendingCallbacks EXCEPT ![type] = 0]
               /\ calls' = Resolve([calls EXCEPT ![callback].timeout = FALSE],
                                   callback, answers)
          ELSE UNCHANGED <<calls, pendingCallbacks>>
     /\ cmdResp' = [op |-> "message", call |-> 0, type |-> type,
                    answers |-> answers, delivered |-> callback]

\* The worker answers the oldest command it has read.
WorkerResponse ==
  /\ stdin # << >>
  /\ handleMessage(ResponseType(calls[Head(stdin)].command), "success", Head(stdin))
  /\ stdin' = Tail(stdin)
  /\ UNCHANGED <<process, workers, readySent, startResult, eventHandlers,
                 sdkAvailable, lastError, shutdownPc, botResp>>
  /\ UNCHANGED <<serverVars, agoraVars, pageVars>>

\* The worker writes a status, playback or log message.
UnsolicitedMessage ==
  \E type \in UnsolicitedTypes, arg \in {"connected", "disconnected"} :
    /\ type # <<"status">> => arg = "connected"
    /\ handleMessage(type, arg, 0)
    /\ UNCHANGED stdin
    /\ UNCHANGED <<process, workers, readySent, startResult, eventHandlers,
                   sdkAvailable, lastError, shutdownPc, botResp>>
    /\ UNCHANGED <<serverVars, agoraVars, pageVars>>

\* The worker never answers its oldest command (it has exited, or the
\* command failed without a response).
WorkerSilent ==
  /\ stdin # << >>
  /\ stdin' = Tail(stdin)
  /\ cmdResp' = [NoCmdResp EXCEPT !.op = "silent", !.call = Head(stdin)]
  /\ UNCHANGED <<calls, pendingCallbacks>>
  /\ UNCHANGED <<process, workers, readySent, startResult, eventHandlers,
                 sdkAvailable, lastError, botStatus, shutdownPc, botResp>>
  /\ UNCHANGED <<serverVars, agoraVars, pageVars>>

CommandInit ==
  /\ calls = [c \in CallIds |-> NoCall]
  /\ pendingCallbacks = [type \in {ResponseType(k) : k \in Commands} |-> 0]
  /\ stdin = << >>
  /\ cmdResp = NoCmdResp

CommandNext ==
  \/ SendCommandWithResponse
  \/ CommandTimeout
  \/ WorkerResponse
  \/ UnsolicitedMessage
  \/ WorkerSilent

BotNext ==
  \/ Start
  \/ CloseEvent
  \/ ErrorEvent
  \/ StartTimeout
  \/ ReadyMessage
  \/ StatusMessage
  \/ ShutdownBegin
  \/ ShutdownEnd


ServerNext ==
  \/ CreateSession
  \/ Heartbeat
  \/ EndSession
  \/ GetLimits
  \/ ExpiryTimeoutFires
  \/ StaleSweep
  \/ Tick

\* The session store: the handlers and timers that act on `sessions`.
StoreNext ==
  \/ StoreCreateSession
  \/ Heartbeat
  \/ EndSession
  \/ ExpiryTimeoutFires
  \/ StaleSweep
  \/ Tick

\* ------------------------------------------------ createSession, await by await
\* The handler of POST /api/sessions is async: it suspends at
\* `await storage.getDailyUsage(token)` (routes.ts 276) and, inside
\* incrementDailyUsage, at `await this.getDailyUsage(userId)` (storage.ts 41).
\* Handlers started in the same event-loop turn (requests pipelined on one
\* connection) are all suspended at their first await before any of them
\* resumes; the continuations then run in FIFO order.

\* routes.ts 272-276: the handler starts, reads the usage and suspends.
BeginCreateSession ==
  \E u \in Identities :
    /\ Len(microtasks) < MaxInflight
    /\ \A i \in 1..Len(microtasks) : microtasks[i].pc = "usage"
    /\ nextId + Len(microtasks) < MaxSessions + MaxInflight - 1
    /\ microtasks' = Append(microtasks,
         [pc |-> "usage", user |-> u,
          usage |-> getDailyUsage(dailyUsage, u, now),
          key1 |-> getTodayDateKey(now),
          todayKey |-> 0, current |-> 0])
    /\ resp' = NoResp
    /\ UNCHANGED <<now, dailyUsage, sessions, timers, nextId, issued>>
    /\ ServerStep

\* routes.ts 277-289: the first continuation finds the limit reached.
ResumeRejected ==
  /\ microtasks # << >>
  /\ LET k == Head(microtasks) IN
     /\ k.pc = "usage"
     /\ QuotaReached(k.usage.count)
     /\ resp' = Reply("create", 429, k.user, k.usage.count, 0,
                      issued[k.user][k.key1], k.key1 = getTodayDateKey(now))
     /\ microtasks' = Tail(microtasks)
  /\ UNCHANGED <<now, dailyUsage, sessions, timers, nextId, issued>>
  /\ ServerStep

\* routes.ts 291-313 and storage.ts 40-41: the first continuation builds the
\* session, arms the timeout, stores the session and enters
\* incrementDailyUsage, which reads the date key and the current usage and
\* suspends.
ResumeAccepted ==
  /\ microtasks # << >>
  /\ LET k == Head(microtasks)
         id == nextId + 1
     IN
     /\ k.pc = "usage"
     /\ ~QuotaReached(k.usage.count)
     /\ nextId' = id
     /\ sessions' = [x \in DOMAIN sessions \cup {id} |->
                       IF x = id THEN NewSession(k.user, now, now, now, id)
                                 ELSE sessions[x]]
     /\ timers' = [x \in DOMAIN timers \cup {id} |->
                     IF x = id THEN now + MAX_SESSION_DURATION_MS ELSE timers[x]]
     /\ microtasks' = Append(Tail(microtasks),
          [k EXCEPT !.pc = "increment",
                    !.todayKey = getTodayDateKey(now),
                    !.current = getDailyUsage(dailyUsage, k.user, now).count])
  /\ resp' = NoResp
  /\ UNCHANGED <<now, dailyUsage, issued>>
  /\ ServerStep

\* storage.ts 43-49 and routes.ts 315-330: the increment stores
\* current.count + 1 and the handler answers 201 with the updated usage.
ResumeIncrement ==
  /\ microtasks # << >>
  /\ LET k == Head(microtasks)
         updated == [dateKey |-> k.todayKey, count |-> k.current + 1]
     IN
     /\ k.pc = "increment"
     /\ dailyUsage' = [x \in DOMAIN dailyUsage \cup {k.user} |->
                         IF x = k.user THEN updated ELSE dailyUsage[x]]
     /\ issued' = [issued EXCEPT ![k.user][k.todayKey] = @ + 1]
     /\ resp' = Reply("create", 201, k.user, updated.count,
                      remainingConnections(updated.count),
                      issued[k.user][k.todayKey],
                      k.key1 = k.todayKey /\ k.todayKey = getTodayDateKey(now))
     /\ microtasks' = Tail(microtasks)
  /\ UNCHANGED <<now, sessions, timers, nextId>>
  /\ ServerStep

ServerConcNext ==
  \/ BeginCreateSession
  \/ ResumeRejected
  \/ ResumeAccepted
  \/ ResumeIncrement
  \/ EndSession
  \/ Tick

\* =================================================================== agora
\* The useAgora hook (agora-types.ts 436-977) and the part of the provider
\* SDK it talks to.  `agora` holds the hook's state and refs under their
\* source names, `rtc` the provider side: window.AgoraRTC, the client's
\* connectionState and localTracks (agora-types.ts 14-16) and the file
\* tracks created so far.  Every awaited provider call is a step of its own:
\* the call suspends, and a later step settles it with success or failure.

ConnectionStates ==
  {"DISCONNECTED", "CONNECTING", "CONNECTED", "RECONNECTING", "DISCONNECTING"}
Tracks == 1..MaxTracks
LeaveSlots == 1..MaxLeaveCalls
RemoteUids == {"peer"}

\* The id of the microphone track in client.localTracks.
MicTrack == 0

\* A leave() call: where it is suspended, the file track it is unpublishing,
\* and the teardown steps (1..5, agora-types.ts 674-716) it has reached.
IdleLeave == [pc |-> "idle", track |-> 0, repeat |-> FALSE, steps |-> << >>]

NoHookResp == [op |-> "none", result |-> "none", repeat |-> FALSE, steps |-> << >>]
HookReply(op, result, repeat) ==
  [op |-> op, result |-> result, repeat |-> repeat, steps |-> << >>]
LeaveReply(result, repeat, steps) ==
  [op |-> "leave", result |-> result, repeat |-> repeat, steps |-> steps]

\* join() disregarding the SDK test.
AgoraNotLoadedIgnored == FALSE

\* agora-types.ts 507: `!window.AgoraRTC`.
AgoraNotLoaded == ~rtc.AgoraRTC

LeaveInProgress == \E i \in LeaveSlots : leaveCalls[i].pc = "leave"

\* The connection-state transitions of the provider client.  Once
\* client.leave() has been called it only disconnects.
Allowed(from, to) ==
  \/ /\ ~LeaveInProgress
     /\ \/ from = "CONNECTING" /\ to = "CONNECTED"
        \/ from = "CONNECTED" /\ to = "RECONNECTING"
        \/ from = "RECONNECTING" /\ to = "CONNECTED"
  \/ from \in {"CONNECTING", "CONNECTED", "RECONNECTING"} /\ to = "DISCONNECTED"
  \/ from = "DISCONNECTING" /\ to = "DISCONNECTED"
  \/ /\ LeaveInProgress
     /\ from \in {"CONNECTING", "CONNECTED", "RECONNECTING"}
     /\ to = "DISCONNECTING"

\* A listener whose switch has no RECONNECTING case.
connectionStateChangeNoReconnecting(status, curState) ==
  CASE curState = "CONNECTED" -> "connected"
    [] curState = "CONNECTING" -> "connecting"
    [] curState = "DISCONNECTED" -> "disconnected"
    [] OTHER -> status

\* agora-types.ts 573-590: the switch of the connection-state-change
\* listener.
connectionStateChange(status, curState) ==
  CASE curState = "CONNECTED" -> "connected"
    [] curState = "CONNECTING" -> "connecting"
    [] curState = "RECONNECTING" -> "reconnecting"
    [] curState = "DISCONNECTED" -> "disconnected"
    [] OTHER -> status

\* agora-types.ts 675-684.
ClearTimers(h) ==
  [h EXCEPT !.volumeIntervalRef = FALSE, !.audioTimeIntervalRef = FALSE]

\* A release that marks the track unpublished and keeps it in the ref.
ReleaseFileTrackKeepingRef(h) ==
  [h EXCEPT !.audioTrackPublishedRef = FALSE]

\* agora-types.ts 696-698 (the track itself is closed by CloseTrack).
ReleaseFileTrack(h) ==
  [h EXCEPT !.audioTrackPublishedRef = FALSE, !.audioFileTrackRef = 0]

\* track.close(): the track is released; the client's localTracks are not
\* touched.
CloseTrack(p, t) == IF t # 0 THEN [p EXCEPT !.tracks[t] = "closed"] ELSE p

\* agora-types.ts 702-706.
ReleaseMic(h) == [h EXCEPT !.localAudioTrackRef = 0]

\* agora-types.ts 703-704: the microphone track the ref holds is closed.
CloseMic(p, h) ==
  IF h.localAudioTrackRef # 0 THEN [p EXCEPT !.micTracks = @ - 1] ELSE p

\* agora-types.ts 711, 935: the handlers registered on the client are
\* dropped.  rtc.listeners is the number of handlers each provider event
\* has on the client the ref holds (join() registers one handler for each
\* event, all at once).
removeAllListeners(p) == [p EXCEPT !.listeners = 0]

\* agora-types.ts 722-724, 786-788, 824-826, 891-893: the playback state is
\* reset.  audioCurrentTime is 0 at the start of the file and 1 at any
\* later position.
ResetPlayback(h) ==
  [h EXCEPT !.isAudioPlaying = FALSE, !.isAudioPaused = FALSE,
            !.audioCurrentTime = 0]

\* agora-types.ts 715-726.
LeaveFinish(h) ==
  ResetPlayback([h EXCEPT !.remoteUsers = {}, !.hasAudio = {},
                          !.status = "disconnected", !.isMuted = FALSE])

\* ------------------------------------------------------------------- join

\* agora-types.ts 501-614: join() up to `await clientRef.current.join(...)`.
\* A client that is not DISCONNECTED rejects the join.
join ==
  /\ joinCall = "idle"
  /\ lastWasLeave' = FALSE
  /\ IF AgoraNotLoaded
       THEN /\ hookResp' = HookReply("join", "Agora SDK not loaded", FALSE)
            /\ UNCHANGED <<agora, rtc, joinCall, lastEvent>>
       ELSE LET fresh == agora.clientRef = 0
                state == IF fresh THEN "DISCONNECTED" ELSE rtc.connectionState
                accepted == state = "DISCONNECTED"
            IN /\ agora' = [agora EXCEPT !.status = "connecting", !.clientRef = 1]
               /\ rtc' = [rtc EXCEPT
                    !.connectionState = IF accepted THEN "CONNECTING" ELSE state,
                    !.localTracks = IF fresh THEN {} ELSE @,
                    !.listeners = IF fresh THEN 1 ELSE @]
               /\ lastEvent' = IF accepted THEN "CONNECTING" ELSE lastEvent
               /\ joinCall' = IF accepted THEN "join" ELSE "rejected"
               /\ hookResp' = HookReply("join", "pending", FALSE)
  /\ UNCHANGED <<leaveCalls, audioCalls>>

\* A catch of join() that reports the failure without setting the status.
joinFailedKeepingStatus(h) ==
  /\ agora' = h
  /\ joinCall' = "idle"
  /\ hookResp' = HookReply("join", "rejected", FALSE)

\* agora-types.ts 662-667: the catch of join().
joinFailed(h) ==
  /\ agora' = [h EXCEPT !.status = "error"]
  /\ joinCall' = "idle"
  /\ hookResp' = HookReply("join", "rejected", FALSE)

\* agora-types.ts 614-618: client.join() settles; on success the hook goes
\* on to create the microphone track.
joinSettled(ok) ==
  /\ joinCall \in {"join", "rejected"}
  /\ ok => joinCall = "join" /\ rtc.connectionState \in {"CONNECTED", "RECONNECTING"}
  /\ ~ok => joinCall = "rejected" \/ rtc.connectionState \notin {"CONNECTED", "RECONNECTING"}
  /\ IF ok
       THEN /\ joinCall' = "mic"
            /\ hookResp' = HookReply("join", "pending", FALSE)
            /\ UNCHANGED agora
       ELSE joinFailed(agora)
  /\ UNCHANGED <<rtc, leaveCalls, audioCalls, lastEvent, lastWasLeave>>

\* agora-types.ts 618-620: createMicrophoneAudioTrack() settles; the track
\* is disabled and published (clientRef.current may be null by now).
micSettled(ok) ==
  /\ joinCall = "mic"
  /\ ok => rtc.micTracks < MaxMicTracks
  /\ IF ok
       THEN LET h == [agora EXCEPT !.localAudioTrackRef = 1] IN
            /\ rtc' = [rtc EXCEPT !.micTracks = @ + 1, !.micEnabled = FALSE]
            /\ IF h.clientRef # 0
                 THEN /\ agora' = h
                      /\ joinCall' = "publish"
                      /\ hookResp' = HookReply("join", "pending", FALSE)
                 ELSE joinFailed(h)
       ELSE joinFailed(agora) /\ UNCHANGED rtc
  /\ UNCHANGED <<leaveCalls, audioCalls, lastEvent, lastWasLeave>>

\* agora-types.ts 620-661: publish() settles; the sampler is started.
publishSettled(ok) ==
  /\ joinCall = "publish"
  /\ ok => rtc.connectionState = "CONNECTED" /\ agora.localAudioTrackRef # 0
  /\ IF ok
       THEN /\ agora' = [agora EXCEPT !.volumeIntervalRef = TRUE]
            /\ rtc' = [rtc EXCEPT !.localTracks = @ \cup {MicTrack}]
            /\ joinCall' = "idle"
            /\ hookResp' = HookReply("join", "resolved", FALSE)
       ELSE joinFailed(agora) /\ UNCHANGED rtc
  /\ UNCHANGED <<leaveCalls, audioCalls, lastEvent, lastWasLeave>>

\* ------------------------------------------------------------------ leave

\* leave() calling client.leave() before it releases the microphone track.
leaveFromMicAfterTransport(i, rep, h, p, log) ==
  LET h1 == ReleaseMic(h)
      log4 == IF h.clientRef # 0 THEN Append(log, 4) ELSE log
      log3 == IF h.localAudioTrackRef # 0 THEN Append(log4, 3) ELSE log4
  IN
  /\ rtc' = CloseMic(p, h)
  /\ IF h1.clientRef # 0
       THEN /\ agora' = h1
            /\ leaveCalls' = [leaveCalls EXCEPT
                 ![i] = [pc |-> "leave", track |-> 0, repeat |-> rep,
                         steps |-> log3]]
            /\ hookResp' = LeaveReply("pending", rep, log3)
       ELSE /\ agora' = LeaveFinish(h1)
            /\ leaveCalls' = [leaveCalls EXCEPT ![i] = IdleLeave]
            /\ hookResp' = LeaveReply("done", rep, Append(log3, 5))

\* agora-types.ts 701-728: leave() from the microphone step on, for the call
\* in slot i, with hook state h and provider state p.
leaveFromMic(i, rep, h, p, log) ==
  LET h1 == ReleaseMic(h)
      log3 == IF h.localAudioTrackRef # 0 THEN Append(log, 3) ELSE log
  IN
  /\ rtc' = CloseMic(p, h)
  /\ IF h1.clientRef # 0
       THEN /\ agora' = h1
            /\ leaveCalls' = [leaveCalls EXCEPT
                 ![i] = [pc |-> "leave", track |-> 0, repeat |-> rep,
                         steps |-> Append(log3, 4)]]
            /\ hookResp' = LeaveReply("pending", rep, Append(log3, 4))
       ELSE /\ agora' = LeaveFinish(h1)
            /\ leaveCalls' = [leaveCalls EXCEPT ![i] = IdleLeave]
            /\ hookResp' = LeaveReply("done", rep, Append(log3, 5))

\* agora-types.ts 729-732: the catch of leave().
leaveFailed(i, rep, h, p, log) ==
  /\ agora' = h
  /\ rtc' = p
  /\ leaveCalls' = [leaveCalls EXCEPT ![i] = IdleLeave]
  /\ hookResp' = LeaveReply("failed", rep, log)

\* agora-types.ts 670-710: leave() up to its first await.  rep records that
\* the call repeats a leave(): the previous call of the hook was a leave()
\* that has finished, or the status is already `disconnected`.
leave(i) ==
  /\ leaveCalls[i].pc = "idle"
  /\ LET h0 == ClearTimers(agora)
         t == h0.audioFileTrackRef
         rep == \/ agora.status = "disconnected"
                \/ lastWasLeave /\ \A j \in LeaveSlots : leaveCalls[j].pc = "idle"
     IN IF t # 0 /\ h0.clientRef # 0 /\ h0.audioTrackPublishedRef
          THEN /\ agora' = h0
               /\ rtc' = rtc
               /\ leaveCalls' = [leaveCalls EXCEPT
                    ![i] = [pc |-> "unpublish", track |-> t, repeat |-> rep,
                            steps |-> <<1, 2>>]]
               /\ hookResp' = LeaveReply("pending", rep, <<1, 2>>)
          ELSE leaveFromMic(i, rep, IF t # 0 THEN ReleaseFileTrack(h0) ELSE h0,
                            CloseTrack(rtc, t),
                            IF t # 0 THEN <<1, 2>> ELSE <<1>>)
  /\ lastWasLeave' = TRUE
  /\ UNCHANGED <<joinCall, audioCalls, lastEvent>>

\* agora-types.ts 690-699: unpublish() of the file track settles (a failure
\* is ignored); the track the ref holds now is closed.
leaveUnpublishSettled(i, ok) ==
  /\ leaveCalls[i].pc = "unpublish"
  /\ ok => leaveCalls[i].track \in rtc.localTracks
  /\ LET t == leaveCalls[i].track
         rep == leaveCalls[i].repeat
         p == IF ok THEN [rtc EXCEPT !.localTracks = @ \ {t}] ELSE rtc
         h == [agora EXCEPT !.audioTrackPublishedRef = FALSE]
         log == leaveCalls[i].steps
     IN IF agora.audioFileTrackRef = 0
          THEN leaveFailed(i, rep, h, p, log)
          ELSE leaveFromMic(i, rep, ReleaseFileTrack(h),
                            CloseTrack(p, agora.audioFileTrackRef),
                            Append(log, 2))
  /\ UNCHANGED <<joinCall, audioCalls, lastEvent, lastWasLeave>>

\* agora-types.ts 710-728: client.leave() settles.  It resolves once the
\* client is DISCONNECTED; a rejection ends leave() in its catch.
leaveSettled(i, ok) ==
  /\ leaveCalls[i].pc = "leave"
  /\ ok => rtc.connectionState = "DISCONNECTED"
  /\ LET rep == leaveCalls[i].repeat IN
     IF ok /\ agora.clientRef # 0
       THEN /\ agora' = LeaveFinish([agora EXCEPT !.clientRef = 0])
            /\ rtc' = removeAllListeners([rtc EXCEPT !.localTracks = {}])
            /\ leaveCalls' = [leaveCalls EXCEPT ![i] = IdleLeave]
            /\ hookResp' = LeaveReply("done", rep, Append(leaveCalls[i].steps, 5))
       ELSE leaveFailed(i, rep, agora, rtc, leaveCalls[i].steps)
  /\ UNCHANGED <<joinCall, audioCalls, lastEvent, lastWasLeave>>

\* ------------------------------------------------------- provider events

\* A client that disconnects gives up the subscribe() calls in flight: they
\* can only reject from then on.
Aborted(subs) ==
  [u \in RemoteUids |-> IF subs[u] = "pending" THEN "aborted" ELSE subs[u]]

\* agora-types.ts 570-591: the client changes its connection state and the
\* listener registered at its creation runs.
connectionStateEvent(to) ==
  /\ agora.clientRef # 0
  /\ Allowed(rtc.connectionState, to)
  /\ rtc' = [rtc EXCEPT !.connectionState = to,
                        !.localTracks = IF to = "DISCONNECTED" THEN {} ELSE @,
                        !.subscribing = IF to = "DISCONNECTED"
                                          THEN Aborted(@) ELSE @]
  /\ agora' = [agora EXCEPT !.status = connectionStateChange(@, to)]
  /\ lastEvent' = to
  /\ hookResp' = NoHookResp
  /\ UNCHANGED <<joinCall, leaveCalls, audioCalls, lastWasLeave>>

\* agora-types.ts 598-601: token-privilege-did-expire.
tokenExpired ==
  /\ agora.clientRef # 0
  /\ rtc.connectionState = "CONNECTED"
  /\ agora.status # "error"
  /\ agora' = [agora EXCEPT !.status = "error"]
  /\ hookResp' = NoHookResp
  /\ UNCHANGED <<rtc, joinCall, leaveCalls, audioCalls, lastEvent, lastWasLeave>>

\* agora-types.ts 523-539: user-published(audio), the subscribe succeeding.
userPublished(u) ==
  /\ agora.clientRef # 0
  /\ rtc.connectionState = "CONNECTED"
  /\ u \notin agora.remoteUsers
  /\ agora' = [agora EXCEPT !.remoteUsers = @ \cup {u}, !.hasAudio = @ \cup {u}]
  /\ hookResp' = NoHookResp
  /\ UNCHANGED <<rtc, joinCall, leaveCalls, audioCalls, lastEvent, lastWasLeave>>

\* agora-types.ts 523-525: user-published(audio) of a connected client, up
\* to the await of subscribe().
userPublishedEvent(u) ==
  /\ agora.clientRef # 0
  /\ rtc.connectionState = "CONNECTED"
  /\ rtc.subscribing[u] = "none"
  /\ rtc' = [rtc EXCEPT !.subscribing[u] = "pending"]
  /\ hookResp' = HookReply("user-published", "pending", FALSE)
  /\ UNCHANGED <<agora, joinCall, leaveCalls, audioCalls, lastEvent, lastWasLeave>>

\* agora-types.ts 525-538: subscribe() settles and the handler resumes: the
\* entry of the user is set, hasAudio as the provider reports it.  The
\* client resolves a subscribe only while CONNECTED; a rejection ends the
\* handler.
subscribeSettled(u, ok, hasAudio) ==
  /\ rtc.subscribing[u] # "none"
  /\ ok => rtc.subscribing[u] = "pending" /\ rtc.connectionState = "CONNECTED"
  /\ rtc' = [rtc EXCEPT !.subscribing[u] = "none"]
  /\ IF ok
       THEN /\ agora' = [agora EXCEPT
                 !.remoteUsers = @ \cup {u},
                 !.hasAudio = IF hasAudio THEN @ \cup {u} ELSE @ \ {u}]
            /\ hookResp' = HookReply("user-published", "resolved", FALSE)
       ELSE /\ hookResp' = HookReply("user-published", "rejected", FALSE)
            /\ UNCHANGED agora
  /\ UNCHANGED <<joinCall, leaveCalls, audioCalls, lastEvent, lastWasLeave>>

\* agora-types.ts 541-554: user-unpublished(audio).
userUnpublished(u) ==
  /\ agora.clientRef # 0
  /\ rtc.connectionState = "CONNECTED"
  /\ agora' = [agora EXCEPT !.hasAudio = IF u \in agora.remoteUsers
                                           THEN @ \ {u} ELSE @]
  /\ hookResp' = HookReply("user-unpublished", "done", FALSE)
  /\ UNCHANGED <<rtc, joinCall, leaveCalls, audioCalls, lastEvent, lastWasLeave>>

\* agora-types.ts 556-564: user-left.
userLeft(u) ==
  /\ agora.clientRef # 0
  /\ u \in agora.remoteUsers
  /\ agora' = [agora EXCEPT !.remoteUsers = @ \ {u}, !.hasAudio = @ \ {u}]
  /\ hookResp' = NoHookResp
  /\ UNCHANGED <<rtc, joinCall, leaveCalls, audioCalls, lastEvent, lastWasLeave>>

\* The SDK script finishes loading: window.AgoraRTC is defined.
sdkScriptLoaded ==
  /\ ~rtc.AgoraRTC
  /\ rtc' = [rtc EXCEPT !.AgoraRTC = TRUE]
  /\ hookResp' = NoHookResp
  /\ UNCHANGED <<agora, joinCall, leaveCalls, audioCalls, lastEvent, lastWasLeave>>

\* A tick of the readiness poll that goes on after the last attempt.
sdkPollTickUnbounded ==
  /\ agora.sdkInterval
  /\ agora.attempts < maxAttempts + 1
  /\ IF rtc.AgoraRTC
       THEN agora' = [agora EXCEPT !.attempts = @ + 1, !.sdkLoaded = TRUE,
                                   !.sdkError = FALSE, !.sdkInterval = FALSE]
       ELSE agora' = [agora EXCEPT !.attempts = @ + 1]
  /\ hookResp' = HookReply("checkSDK", "tick", FALSE)
  /\ UNCHANGED <<rtc, joinCall, leaveCalls, audioCalls, lastEvent, lastWasLeave>>

\* agora-types.ts 485-496: a tick of the readiness poll.  The effect of
\* 465-499 has run when the hook was mounted without the SDK: its first
\* check failed and the interval is armed, with no attempt counted.
sdkPollTick ==
  /\ agora.sdkInterval
  /\ LET n == agora.attempts + 1 IN
     IF rtc.AgoraRTC
       THEN /\ agora' = [agora EXCEPT !.attempts = n, !.sdkLoaded = TRUE,
                                      !.sdkError = FALSE, !.sdkInterval = FALSE]
            /\ hookResp' = HookReply("checkSDK", "loaded", FALSE)
       ELSE IF n >= maxAttempts
         THEN /\ agora' = [agora EXCEPT !.attempts = n, !.sdkError = TRUE,
                                        !.sdkInterval = FALSE]
              /\ hookResp' = HookReply("checkSDK", "failed", FALSE)
         ELSE /\ agora' = [agora EXCEPT !.attempts = n]
              /\ hookResp' = HookReply("checkSDK", "tick", FALSE)
  /\ UNCHANGED <<rtc, joinCall, leaveCalls, audioCalls, lastEvent, lastWasLeave>>

\* agora-types.ts 469-479, 487-489: the tick of the readiness poll that
\* finds the SDK (the ticks before it are not counted here).
checkSDK ==
  /\ rtc.AgoraRTC
  /\ ~agora.sdkLoaded
  /\ agora.sdkInterval
  /\ agora' = [agora EXCEPT !.sdkLoaded = TRUE, !.sdkInterval = FALSE]
  /\ hookResp' = NoHookResp
  /\ UNCHANGED <<rtc, joinCall, leaveCalls, audioCalls, lastEvent, lastWasLeave>>

\* agora-types.ts 735-742: toggleMute(); setEnabled() may fail, and then the
\* hook's isMuted is not changed.
toggleMute(ok) ==
  /\ agora.localAudioTrackRef # 0
  /\ LET newMuted == ~agora.isMuted IN
     IF ok
       THEN /\ rtc' = [rtc EXCEPT !.micEnabled = ~newMuted]
            /\ agora' = [agora EXCEPT !.isMuted = newMuted]
            /\ hookResp' = HookReply("toggleMute", "resolved", FALSE)
       ELSE /\ hookResp' = HookReply("toggleMute", "rejected", FALSE)
            /\ UNCHANGED <<agora, rtc>>
  /\ UNCHANGED <<joinCall, leaveCalls, audioCalls, lastEvent, lastWasLeave>>

\* ------------------------------------------------------------- file audio

\* agora-types.ts 763-780: loadAudioFile() up to the await of
\* createBufferSourceAudioTrack.
loadAudioFile ==
  /\ ~audioCalls.load
  /\ \E t \in Tracks : rtc.tracks[t] = "none"
  /\ lastWasLeave' = FALSE
  /\ IF ~rtc.AgoraRTC
       THEN /\ hookResp' = HookReply("loadAudioFile", "Agora SDK not loaded", FALSE)
            /\ UNCHANGED <<agora, rtc, audioCalls>>
       ELSE LET t == agora.audioFileTrackRef IN
            /\ agora' = IF t # 0 THEN ReleaseFileTrack(agora) ELSE agora
            /\ rtc' = CloseTrack(rtc, t)
            /\ audioCalls' = [audioCalls EXCEPT !.load = TRUE]
            /\ hookResp' = HookReply("loadAudioFile", "pending", FALSE)
  /\ UNCHANGED <<joinCall, leaveCalls, lastEvent>>

\* agora-types.ts 778-795: the track is created (or the creation fails).
loadSettled(ok) ==
  /\ audioCalls.load
  /\ audioCalls' = [audioCalls EXCEPT !.load = FALSE]
  /\ IF ok
       THEN \E t \in Tracks :
              /\ rtc.tracks[t] = "none"
              /\ \A v \in Tracks : v < t => rtc.tracks[v] # "none"
              /\ rtc' = [rtc EXCEPT !.tracks[t] = "open"]
              /\ agora' = ResetPlayback([agora EXCEPT !.audioFileTrackRef = t])
              /\ hookResp' = HookReply("loadAudioFile", "done", FALSE)
       ELSE /\ hookResp' = HookReply("loadAudioFile", "failed", FALSE)
            /\ UNCHANGED <<agora, rtc>>
  /\ UNCHANGED <<joinCall, leaveCalls, lastEvent, lastWasLeave>>

\* agora-types.ts 846-851.
StartPlayback(h) ==
  [h EXCEPT !.isAudioPlaying = TRUE, !.isAudioPaused = FALSE,
            !.audioTimeIntervalRef = TRUE]

\* agora-types.ts 832-851: playAudio() up to the await of publish.
playAudio ==
  /\ audioCalls.play = 0
  /\ lastWasLeave' = FALSE
  /\ IF agora.audioFileTrackRef = 0 \/ agora.clientRef = 0
       THEN /\ hookResp' = HookReply("playAudio", "not connected", FALSE)
            /\ UNCHANGED <<agora, audioCalls>>
       ELSE IF ~agora.audioTrackPublishedRef
         THEN /\ audioCalls' = [audioCalls EXCEPT !.play = agora.audioFileTrackRef]
              /\ hookResp' = HookReply("playAudio", "pending", FALSE)
              /\ UNCHANGED agora
         ELSE /\ agora' = StartPlayback(agora)
              /\ hookResp' = HookReply("playAudio", "done", FALSE)
              /\ UNCHANGED audioCalls
  /\ UNCHANGED <<rtc, joinCall, leaveCalls, lastEvent>>

\* agora-types.ts 842-857: publish() of the file track settles.  The client
\* publishes an open track while CONNECTED.
playSettled(ok) ==
  /\ audioCalls.play # 0
  /\ LET t == audioCalls.play IN
     /\ ok => rtc.connectionState = "CONNECTED" /\ rtc.tracks[t] = "open"
     /\ audioCalls' = [audioCalls EXCEPT !.play = 0]
     /\ IF ok
          THEN /\ rtc' = [rtc EXCEPT !.localTracks = @ \cup {t}]
               /\ LET h == [agora EXCEPT !.audioTrackPublishedRef = TRUE] IN
                  IF h.audioFileTrackRef # 0
                    THEN /\ agora' = StartPlayback(h)
                         /\ hookResp' = HookReply("playAudio", "done", FALSE)
                    ELSE /\ agora' = h
                         /\ hookResp' = HookReply("playAudio", "failed", FALSE)
          ELSE /\ hookResp' = HookReply("playAudio", "failed", FALSE)
               /\ UNCHANGED <<agora, rtc>>
  /\ UNCHANGED <<joinCall, leaveCalls, lastEvent, lastWasLeave>>

\* A poll that leaves its interval armed when it finds the end.
pollTickKeepingTimer(ended) ==
  /\ agora.audioTimeIntervalRef
  /\ agora.audioFileTrackRef # 0
  /\ ended
  /\ agora.clientRef # 0 /\ agora.audioTrackPublishedRef
  /\ audioCalls.poll = 0
  /\ agora' = [agora EXCEPT !.audioCurrentTime = 1]
  /\ audioCalls' = [audioCalls EXCEPT !.poll = agora.audioFileTrackRef]
  /\ hookResp' = HookReply("poll", "pending", FALSE)
  /\ UNCHANGED <<rtc, joinCall, leaveCalls, lastEvent, lastWasLeave>>

\* agora-types.ts 803-828: the poll interval fires.  `ended` is the test
\* currentTime >= audioDuration on the track the ref holds; at the end the
\* interval is cleared and the track unpublished (one such unpublish in
\* flight at a time).
pollTick(ended) ==
  /\ agora.audioTimeIntervalRef
  /\ LET t == agora.audioFileTrackRef
         polled == [agora EXCEPT !.audioCurrentTime = 1]
     IN
     IF t = 0
       THEN /\ hookResp' = HookReply("poll", "tick", FALSE)
            /\ UNCHANGED <<agora, audioCalls>>
       ELSE IF ~ended
         THEN /\ agora' = polled
              /\ hookResp' = HookReply("poll", "tick", FALSE)
              /\ UNCHANGED audioCalls
         ELSE LET h == [polled EXCEPT !.audioTimeIntervalRef = FALSE] IN
              IF h.clientRef # 0 /\ h.audioTrackPublishedRef
                THEN /\ audioCalls.poll = 0
                     /\ agora' = h
                     /\ audioCalls' = [audioCalls EXCEPT !.poll = t]
                     /\ hookResp' = HookReply("poll", "pending", FALSE)
                ELSE /\ agora' = ResetPlayback(h)
                     /\ hookResp' = HookReply("poll", "ended", FALSE)
                     /\ UNCHANGED audioCalls
  /\ UNCHANGED <<rtc, joinCall, leaveCalls, lastEvent, lastWasLeave>>

\* agora-types.ts 815-825: the unpublish() of the poll settles (a failure is
\* ignored) and the playback state is reset.
pollUnpublishSettled(ok) ==
  /\ audioCalls.poll # 0
  /\ LET t == audioCalls.poll IN
     /\ ok => t \in rtc.localTracks
     /\ audioCalls' = [audioCalls EXCEPT !.poll = 0]
     /\ rtc' = IF ok THEN [rtc EXCEPT !.localTracks = @ \ {t}] ELSE rtc
     /\ agora' = ResetPlayback([agora EXCEPT
          !.audioTrackPublishedRef = IF ok THEN FALSE ELSE @])
     /\ hookResp' = HookReply("poll", IF ok THEN "ended" ELSE "unpublish failed",
                              FALSE)
  /\ UNCHANGED <<joinCall, leaveCalls, lastEvent, lastWasLeave>>

\* agora-types.ts 860-866.
pauseAudio ==
  /\ lastWasLeave' = FALSE
  /\ IF agora.audioFileTrackRef # 0 /\ agora.isAudioPlaying /\ ~agora.isAudioPaused
       THEN /\ agora' = [agora EXCEPT !.isAudioPaused = TRUE]
            /\ hookResp' = HookReply("pauseAudio", "done", FALSE)
       ELSE /\ hookResp' = HookReply("pauseAudio", "ignored", FALSE)
            /\ UNCHANGED agora
  /\ UNCHANGED <<rtc, joinCall, leaveCalls, audioCalls, lastEvent>>

\* agora-types.ts 868-874.
resumeAudio ==
  /\ lastWasLeave' = FALSE
  /\ IF agora.audioFileTrackRef # 0 /\ agora.isAudioPlaying /\ agora.isAudioPaused
       THEN /\ agora' = [agora EXCEPT !.isAudioPaused = FALSE]
            /\ hookResp' = HookReply("resumeAudio", "done", FALSE)
       ELSE /\ hookResp' = HookReply("resumeAudio", "ignored", FALSE)
            /\ UNCHANGED agora
  /\ UNCHANGED <<rtc, joinCall, leaveCalls, audioCalls, lastEvent>>

\* agora-types.ts 886-893.
StopPlayback(h) ==
  ResetPlayback([h EXCEPT !.audioTimeIntervalRef = FALSE])

\* agora-types.ts 876-894: stopAudio() up to the await of unpublish.
stopAudio ==
  /\ audioCalls.stop = 0
  /\ agora.audioFileTrackRef # 0
  /\ lastWasLeave' = FALSE
  /\ IF agora.clientRef # 0 /\ agora.audioTrackPublishedRef
       THEN /\ audioCalls' = [audioCalls EXCEPT !.stop = agora.audioFileTrackRef]
            /\ hookResp' = HookReply("stopAudio", "pending", FALSE)
            /\ UNCHANGED agora
       ELSE /\ agora' = StopPlayback(agora)
            /\ hookResp' = HookReply("stopAudio", "done", FALSE)
            /\ UNCHANGED audioCalls
  /\ UNCHANGED <<rtc, joinCall, leaveCalls, lastEvent>>

\* agora-types.ts 882-898: unpublish() settles.
stopSettled(ok) ==
  /\ audioCalls.stop # 0
  /\ LET t == audioCalls.stop IN
     /\ ok => t \in rtc.localTracks
     /\ audioCalls' = [audioCalls EXCEPT !.stop = 0]
     /\ IF ok
          THEN /\ rtc' = [rtc EXCEPT !.localTracks = @ \ {t}]
               /\ agora' = StopPlayback([agora EXCEPT !.audioTrackPublishedRef = FALSE])
               /\ hookResp' = HookReply("stopAudio", "done", FALSE)
          ELSE /\ hookResp' = HookReply("stopAudio", "failed", FALSE)
               /\ UNCHANGED <<agora, rtc>>
  /\ UNCHANGED <<joinCall, leaveCalls, lastEvent, lastWasLeave>>

\* --------------------------------------------- the hook driven by a caller

FirstIdleLeave(i) ==
  /\ leaveCalls[i].pc = "idle"
  /\ \A j \in LeaveSlots : j < i => leaveCalls[j].pc # "idle"

Join == join /\ AgoraStep
JoinSettled == \E ok \in BOOLEAN : joinSettled(ok) /\ AgoraStep
MicSettled == \E ok \in BOOLEAN : micSettled(ok) /\ AgoraStep
PublishSettled == \E ok \in BOOLEAN : publishSettled(ok) /\ AgoraStep
Leave == \E i \in LeaveSlots : FirstIdleLeave(i) /\ leave(i) /\ AgoraStep
LeaveAwaited ==
  /\ \A j \in LeaveSlots : leaveCalls[j].pc = "idle"
  /\ \E i \in LeaveSlots : FirstIdleLeave(i) /\ leave(i) /\ AgoraStep
LeaveUnpublishSettled ==
  \E i \in LeaveSlots, ok \in BOOLEAN : leaveUnpublishSettled(i, ok) /\ AgoraStep
LeaveSettled ==
  \E i \in LeaveSlots, ok \in BOOLEAN : leaveSettled(i, ok) /\ AgoraStep
ConnectionStateEvent ==
  \E to \in ConnectionStates : connectionStateEvent(to) /\ AgoraStep
TokenExpired == tokenExpired /\ AgoraStep
UserPublished == \E u \in RemoteUids : userPublished(u) /\ AgoraStep
UserLeft == \E u \in RemoteUids : userLeft(u) /\ AgoraStep
SdkScriptLoaded == sdkScriptLoaded /\ AgoraStep
CheckSDK == checkSDK /\ AgoraStep
ToggleMute == \E ok \in BOOLEAN : toggleMute(ok) /\ AgoraStep
LoadAudioFile == loadAudioFile /\ AgoraStep
LoadSettled == \E ok \in BOOLEAN : loadSettled(ok) /\ AgoraStep
PlayAudio == playAudio /\ AgoraStep
PlaySettled == \E ok \in BOOLEAN : playSettled(ok) /\ AgoraStep
StopAudio == stopAudio /\ AgoraStep
StopSettled == \E ok \in BOOLEAN : stopSettled(ok) /\ AgoraStep

AgoraInit ==
  /\ agora = [status |-> "disconnected", isMuted |-> TRUE, remoteUsers |-> {},
              hasAudio |-> {},
              sdkLoaded |-> FALSE, clientRef |-> 0, localAudioTrackRef |-> 0,
              volumeIntervalRef |-> FALSE, audioFileTrackRef |-> 0,
              audioTrackPublishedRef |-> FALSE, audioTimeIntervalRef |-> FALSE,
              isAudioPlaying |-> FALSE, isAudioPaused |-> FALSE,
              audioCurrentTime |-> 0,
              sdkError |-> FALSE, attempts |-> 0, sdkInterval |-> TRUE]
  /\ rtc = [AgoraRTC |-> FALSE, connectionState |-> "DISCONNECTED",
            micTracks |-> 0, micEnabled |-> FALSE,
            localTracks |-> {}, tracks |-> [t \in Tracks |-> "none"],
            subscribing |-> [u \in RemoteUids |-> "none"],
            listeners |-> 0]
  /\ joinCall = "idle"
  /\ leaveCalls = [i \in LeaveSlots |-> IdleLeave]
  /\ audioCalls = [load |-> FALSE, play |-> 0, stop |-> 0, poll |-> 0]
  /\ lastEvent = "none"
  /\ lastWasLeave = FALSE
  /\ hookResp = NoHookResp

\* The connection life cycle: join(), leave() and the provider's events.
AgoraNext ==
  \/ Join
  \/ JoinSettled
  \/ MicSettled
  \/ PublishSettled
  \/ Leave
  \/ LeaveSettled
  \/ ConnectionStateEvent
  \/ TokenExpired
  \/ UserPublished
  \/ UserLeft
  \/ SdkScriptLoaded
  \/ CheckSDK
  \/ ToggleMute

\* File audio on top of the connection life cycle, the caller awaiting each
\* leave() before it calls the hook again.
AudioNext ==
  \/ Join
  \/ JoinSettled
  \/ MicSettled
  \/ PublishSettled
  \/ LeaveAwaited
  \/ LeaveUnpublishSettled
  \/ LeaveSettled
  \/ ConnectionStateEvent
  \/ SdkScriptLoaded
  \/ LoadAudioFile
  \/ LoadSettled
  \/ PlayAudio
  \/ PlaySettled
  \/ StopAudio
  \/ StopSettled

\* join(), file audio up to its publication, and leave(): the runs in which
\* leave() finds a file track loaded or published.
TeardownNext ==
  \/ Join
  \/ JoinSettled
  \/ MicSettled
  \/ PublishSettled
  \/ LeaveAwaited
  \/ LeaveUnpublishSettled
  \/ LeaveSettled
  \/ ConnectionStateEvent
  \/ SdkScriptLoaded
  \/ LoadAudioFile
  \/ LoadSettled
  \/ PlayAudio
  \/ PlaySettled

\* leave() against the continuations of the user-published handler and of
\* the playback poll, in the runs in which the participants publish before
\* the one file of the run is loaded (the two handlers share no state).
StaleNext ==
  \/ Join
  \/ JoinSettled
  \/ MicSettled
  \/ PublishSettled
  \/ LeaveAwaited
  \/ LeaveUnpublishSettled
  \/ LeaveSettled
  \/ ConnectionStateEvent
  \/ SdkScriptLoaded
  \/ /\ \A t \in Tracks : rtc.tracks[t] = "none"
     /\ ~audioCalls.load
     /\ \E u \in RemoteUids : userPublishedEvent(u) /\ AgoraStep
  \/ \E u \in RemoteUids, ok, hasAudio \in BOOLEAN :
       subscribeSettled(u, ok, hasAudio) /\ AgoraStep
  \/ /\ agora.remoteUsers = {}
     /\ \A u \in RemoteUids : rtc.subscribing[u] = "none"
     /\ \A t \in Tracks : rtc.tracks[t] = "none"
     /\ LoadAudioFile
  \/ LoadSettled
  \/ PlayAudio
  \/ PlaySettled
  \/ \E ended \in BOOLEAN : pollTick(ended) /\ AgoraStep
  \/ \E ok \in BOOLEAN : pollUnpublishSettled(ok) /\ AgoraStep

\* The participant map: the handlers of user-published, user-unpublished
\* and user-left against join() and leave().
ParticipantsNext ==
  \/ Join
  \/ JoinSettled
  \/ MicSettled
  \/ PublishSettled
  \/ Leave
  \/ LeaveSettled
  \/ ConnectionStateEvent
  \/ SdkScriptLoaded
  \/ \E u \in RemoteUids : userPublishedEvent(u) /\ AgoraStep
  \/ \E u \in RemoteUids, ok, hasAudio \in BOOLEAN :
       subscribeSettled(u, ok, hasAudio) /\ AgoraStep
  \/ \E u \in RemoteUids : userUnpublished(u) /\ AgoraStep
  \/ UserLeft

\* Playback of a file once the hook has joined: load, play, pause, resume
\* and stop against the poll of the playback position.
PollNext ==
  \/ Join
  \/ JoinSettled
  \/ MicSettled
  \/ PublishSettled
  \/ ConnectionStateEvent
  \/ SdkScriptLoaded
  \/ LoadAudioFile
  \/ LoadSettled
  \/ PlayAudio
  \/ PlaySettled
  \/ pauseAudio /\ AgoraStep
  \/ resumeAudio /\ AgoraStep
  \/ StopAudio
  \/ StopSettled
  \/ \E ended \in BOOLEAN : pollTick(ended) /\ AgoraStep
  \/ \E ok \in BOOLEAN : pollUnpublishSettled(ok) /\ AgoraStep

\* The readiness poll of the hook against the loading of the SDK script.
SdkNext ==
  \/ sdkPollTick /\ AgoraStep
  \/ SdkScriptLoaded

\* ==================================================================== page
\* The VoiceBot page (part_000).  It drives the hook: handleJoin creates a
\* server session and calls join(), handleLeave ends the session and calls
\* leave().  React runs the effects of a render before anything else
\* happens: while the values an effect depends on differ from those of the
\* last commit (`rendered`), only CommitEffects can take a step.  The
\* requests to the server settle with any outcome, at any later time.

\* useState<number | null>(null): no countdown.
NullTime == -1

IdleHandleLeave == [pc |-> "idle", by |-> "none"]

\* part_000 82-84 (the configuration is filled in).
isConnected == agora.status = "connected"
isConnecting == agora.status \in {"connecting", "reconnecting"}
canJoin == agora.sdkLoaded /\ ~isConnecting /\ ~isConnected

\* The values the effects of part_000 123-160 and 260-270 depend on;
\* handleLeave is a new function whenever sessionId changes (line 258).
Deps ==
  [sessionId |-> page.sessionId, timeRemaining |-> page.timeRemaining,
   isConnected |-> isConnected]

EffectsSettled == rendered = Deps

\* part_000 250-257: handleLeave after `await leave()`, for the call in
\* slot i; the hook's leave() of this step may still be suspended.
afterLeave(i, by, pg) ==
  IF leaveCalls'[i].pc = "idle"
    THEN /\ page' = [pg EXCEPT !.timeRemaining = NullTime]
         /\ handleLeaveCalls' = [handleLeaveCalls EXCEPT ![i] = IdleHandleLeave]
    ELSE /\ page' = pg
         /\ handleLeaveCalls' = [handleLeaveCalls EXCEPT
              ![i] = [pc |-> "leave", by |-> by]]

\* A cleanup that forgets the interval without clearing it.
heartbeatCleanupRefOnly(pg) == [pg EXCEPT !.heartbeatRef = FALSE]

\* part_000 133-138 (and 230-233 of handleLeave): the interval the ref
\* holds is cleared and the ref set to null.  heartbeatTimers counts the
\* heartbeat intervals that are armed.
heartbeatCleanup(pg) ==
  IF pg.heartbeatRef
    THEN [pg EXCEPT !.heartbeatRef = FALSE, !.heartbeatTimers = @ - 1]
    ELSE pg

\* part_000 123-140: the heartbeat effect of a commit with the values d:
\* the cleanup of the previous run, then the body, which arms an interval
\* and stores it in the ref.
heartbeatEffect(pg, d) ==
  LET cleaned == heartbeatCleanup(pg)
  IN IF d.sessionId # 0 /\ d.isConnected
       THEN [cleaned EXCEPT !.heartbeatRef = TRUE, !.heartbeatTimers = @ + 1]
       ELSE cleaned

\* part_000 229-250: handleLeave() up to its first await, called with the
\* page state pg: the DELETE of the session, or leave() when the closure
\* holds no session id.
handleLeave(i, by, pg) ==
  LET pg1 == [heartbeatCleanup(pg) EXCEPT !.countdownRef = FALSE,
                                           !.sessionId = 0]
  IN IF pg.sessionId # 0
       THEN /\ page' = pg1
            /\ handleLeaveCalls' = [handleLeaveCalls EXCEPT
                 ![i] = [pc |-> "delete", by |-> by]]
            /\ UNCHANGED agoraVars
       ELSE /\ leave(i)
            /\ afterLeave(i, by, pg1)

FirstIdleHandleLeave(i) ==
  /\ handleLeaveCalls[i].pc = "idle"
  /\ \A j \in LeaveSlots : j < i => handleLeaveCalls[j].pc # "idle"

\* part_000 123-160 and 260-270: the effects of a render whose dependencies
\* changed, in the order of their declaration: the heartbeat effect, the
\* countdown effect and the expiry effect, which calls handleLeave().
CommitEffects ==
  /\ rendered # Deps
  /\ rendered' = Deps
  /\ LET d == Deps
         heartbeatDeps == <<rendered.sessionId, rendered.isConnected>>
                            # <<d.sessionId, d.isConnected>>
         countdownDeps == <<rendered.isConnected, rendered.timeRemaining # NullTime>>
                            # <<d.isConnected, d.timeRemaining # NullTime>>
         pg1 == IF heartbeatDeps
                  THEN heartbeatEffect(page, d)
                  ELSE page
         pg2 == IF countdownDeps
                  THEN [pg1 EXCEPT !.countdownRef =
                          d.isConnected /\ d.timeRemaining # NullTime
                                        /\ d.timeRemaining > 0]
                  ELSE pg1
     IN IF d.timeRemaining = 0 /\ d.isConnected
          THEN \E i \in LeaveSlots :
                 FirstIdleHandleLeave(i) /\ handleLeave(i, "expiry", pg2)
          ELSE /\ page' = pg2
               /\ UNCHANGED <<handleLeaveCalls, agoraVars>>
  /\ pageResp' = "commit"
  /\ UNCHANGED posting
  /\ UNCHANGED <<serverVars, botVars>>

\* part_000 144-151: the countdown interval fires.
CountdownTick ==
  /\ EffectsSettled
  /\ page.countdownRef
  /\ page' = [page EXCEPT !.timeRemaining =
                IF @ = NullTime \/ @ <= 1 THEN 0 ELSE @ - 1]
  /\ pageResp' = "countdown"
  /\ UNCHANGED <<posting, handleLeaveCalls, rendered>>
  /\ UNCHANGED <<serverVars, botVars, agoraVars>>

\* A heartbeat callback that stops its interval when the request fails.
HeartbeatTickStoppingOnFailure ==
  /\ EffectsSettled
  /\ page.heartbeatRef
  /\ \E ok \in BOOLEAN :
       /\ pageResp' = IF ok THEN "heartbeat" ELSE "heartbeat failed"
       /\ page' = IF ok THEN page ELSE heartbeatCleanup(page)
  /\ UNCHANGED <<posting, handleLeaveCalls, rendered>>
  /\ UNCHANGED <<serverVars, botVars, agoraVars>>

\* part_000 125-131: the heartbeat interval fires and the request settles;
\* a failure is caught and written to the console.
HeartbeatTick ==
  /\ EffectsSettled
  /\ page.heartbeatTimers > 0
  /\ \E ok \in BOOLEAN :
       pageResp' = IF ok THEN "heartbeat" ELSE "heartbeat failed"
  /\ UNCHANGED <<page, posting, handleLeaveCalls, rendered>>
  /\ UNCHANGED <<serverVars, botVars, agoraVars>>

\* routes.ts 295: every session gets a fresh id; two ids in turn tell a
\* session from the one before it.
NextSessionId(last) == IF last = 1 THEN 2 ELSE 1

\* part_000 162-178 and 394-395: the join button (enabled by canJoin) calls
\* handleJoin(), which posts the session request; at most `limit` such
\* requests are in flight.
handleJoin(limit) ==
  /\ EffectsSettled
  /\ canJoin
  /\ posting < limit
  /\ posting' = posting + 1
  /\ pageResp' = "handleJoin"
  /\ UNCHANGED <<page, handleLeaveCalls, rendered>>
  /\ UNCHANGED <<serverVars, botVars, agoraVars>>

HandleJoin == handleJoin(MaxPosting)

\* part_000 180-215: the session request settles.  On 201 the session id
\* and the countdown are set and join() is called.
PostSettled ==
  /\ EffectsSettled
  /\ posting > 0
  /\ posting' = posting - 1
  /\ \E outcome \in {"201", "429", "failed"} :
       IF outcome = "201"
         THEN /\ page' = [page EXCEPT !.sessionId = NextSessionId(page.lastId),
                                      !.lastId = NextSessionId(page.lastId),
                                      !.timeRemaining = MAX_SESSION_DURATION_MS]
              /\ join
              /\ pageResp' = "session created"
         ELSE /\ pageResp' = outcome
              /\ UNCHANGED <<page, agoraVars>>
  /\ UNCHANGED <<handleLeaveCalls, rendered>>
  /\ UNCHANGED <<serverVars, botVars>>

\* part_000 438-452: the leave button, shown while connected.
HandleLeave ==
  /\ EffectsSettled
  /\ isConnected
  /\ \E i \in LeaveSlots : FirstIdleHandleLeave(i) /\ handleLeave(i, "button", page)
  /\ pageResp' = "handleLeave"
  /\ UNCHANGED <<posting, rendered>>
  /\ UNCHANGED <<serverVars, botVars>>

\* part_000 243-250: the DELETE settles (a failure is only logged) and
\* leave() is called.
DeleteSettled ==
  /\ EffectsSettled
  /\ \E i \in LeaveSlots :
       /\ handleLeaveCalls[i].pc = "delete"
       /\ leave(i)
       /\ afterLeave(i, handleLeaveCalls[i].by, page)
  /\ pageResp' = "session ended"
  /\ UNCHANGED <<posting, rendered>>
  /\ UNCHANGED <<serverVars, botVars>>

\* part_000 250-257: client.leave() settles inside the hook's leave() and
\* handleLeave resumes.
PageLeaveSettled ==
  /\ EffectsSettled
  /\ \E i \in LeaveSlots, ok \in BOOLEAN :
       /\ handleLeaveCalls[i].pc = "leave"
       /\ leaveSettled(i, ok)
       /\ afterLeave(i, handleLeaveCalls[i].by, page)
  /\ pageResp' = "left"
  /\ UNCHANGED <<posting, rendered>>
  /\ UNCHANGED <<serverVars, botVars>>

\* A final cleanup that reads the session id its closure captured when the
\* page was mounted, not the ref.
UnmountReadingState ==
  /\ EffectsSettled
  /\ page.mounted
  /\ page' = [heartbeatCleanup(page) EXCEPT !.countdownRef = FALSE,
                                             !.mounted = FALSE, !.deleteSent = 0]
  /\ \E i \in LeaveSlots : FirstIdleLeave(i) /\ leave(i)
  /\ pageResp' = "unmounted"
  /\ UNCHANGED <<posting, handleLeaveCalls, rendered>>
  /\ UNCHANGED <<serverVars, botVars>>

\* part_000 272-274: the ref is assigned by an effect of the commit that
\* rendered the session id.
sessionIdRef == rendered.sessionId

\* The page is unmounted and the cleanups of its effects run in the order
\* of their declaration: the hook's (agora-types.ts 917-938: timers
\* cleared, both tracks closed, client.leave() called), those of the
\* heartbeat and countdown effects (part_000 133-138, 154-159) and the
\* final one (part_000 280-294), which calls leave() (agora-types.ts
\* 670-709, up to its first await) and sends the DELETE of the session the
\* ref holds.  What the page's requests and the hook's calls in flight do
\* after the unmount is not modelled.
Unmount ==
  /\ EffectsSettled
  /\ page.mounted
  /\ page' = [heartbeatCleanup(page) EXCEPT !.countdownRef = FALSE,
                                             !.mounted = FALSE,
                                             !.deleteSent = sessionIdRef]
  /\ \E i \in LeaveSlots :
       /\ FirstIdleLeave(i)
       /\ LET h0 == [ClearTimers(agora) EXCEPT !.sdkInterval = FALSE]
              t == h0.audioFileTrackRef
              p0 == IF h0.clientRef # 0
                      THEN removeAllListeners(CloseTrack(rtc, t))
                      ELSE CloseTrack(rtc, t)
              rep == \/ agora.status = "disconnected"
                     \/ lastWasLeave /\ \A j \in LeaveSlots : leaveCalls[j].pc = "idle"
          IN IF t # 0 /\ h0.clientRef # 0 /\ h0.audioTrackPublishedRef
               THEN /\ agora' = h0
                    /\ rtc' = CloseMic(p0, h0)
                    /\ leaveCalls' = [leaveCalls EXCEPT
                         ![i] = [pc |-> "unpublish", track |-> t, repeat |-> rep,
                                 steps |-> <<1, 2>>]]
                    /\ hookResp' = LeaveReply("pending", rep, <<1, 2>>)
               ELSE leaveFromMic(i, rep, IF t # 0 THEN ReleaseFileTrack(h0) ELSE h0,
                                 p0, IF t # 0 THEN <<1, 2>> ELSE <<1>>)
  /\ lastWasLeave' = TRUE
  /\ pageResp' = "unmounted"
  /\ UNCHANGED <<posting, handleLeaveCalls, rendered>>
  /\ UNCHANGED <<serverVars, botVars, joinCall, audioCalls, lastEvent>>

\* Steps of the hook and of the provider while the page is mounted.
PageJoinSettled == EffectsSettled /\ JoinSettled
PageMicSettled == EffectsSettled /\ MicSettled
PagePublishSettled == EffectsSettled /\ PublishSettled
PageConnectionStateEvent == EffectsSettled /\ ConnectionStateEvent
PageSdkScriptLoaded == EffectsSettled /\ SdkScriptLoaded
PageCheckSDK == EffectsSettled /\ CheckSDK

PageInit ==
  /\ page = [sessionId |-> 0, timeRemaining |-> NullTime,
             heartbeatRef |-> FALSE, heartbeatTimers |-> 0,
             countdownRef |-> FALSE,
             lastId |-> 0, mounted |-> TRUE, deleteSent |-> 0]
  /\ posting = 0
  /\ handleLeaveCalls = [i \in LeaveSlots |-> IdleHandleLeave]
  /\ rendered = [sessionId |-> 0, timeRemaining |-> NullTime,
                 isConnected |-> FALSE]
  /\ pageResp = "none"

PageNext ==
  \/ CommitEffects
  \/ CountdownTick
  \/ HeartbeatTick
  \/ HandleJoin
  \/ PostSettled
  \/ HandleLeave
  \/ DeleteSettled
  \/ PageLeaveSettled
  \/ PageJoinSettled
  \/ PagePublishSettled
  \/ PageMicSettled
  \/ PageConnectionStateEvent
  \/ PageSdkScriptLoaded
  \/ PageCheckSDK

\* The join button while handleJoin() calls are in progress.
JoinNext ==
  \/ CommitEffects
  \/ handleJoin(MaxJoinAttempts)
  \/ PostSettled
  \/ PageJoinSettled
  \/ PageMicSettled
  \/ PagePublishSettled
  \/ PageConnectionStateEvent
  \/ PageSdkScriptLoaded
  \/ PageCheckSDK

\* The page until it is unmounted.
UnmountNext ==
  \/ page.mounted /\ PageNext
  \/ Unmount

\* ========================================================== specifications

\* The state after construction of every part.
Init == ServerInit /\ BotInit /\ CommandInit /\ AgoraInit /\ PageInit

\* The server with every handler run to completion in its own turn.
SpecServer == Init /\ [][ServerNext]_vars

\* The server with createSession followed await by await.
SpecServerConc == Init /\ [][ServerConcNext]_vars

SpecStore == Init /\ [][StoreNext]_vars

\* The session store with a clock that keeps running and timeouts that fire
\* once they are due (the event loop runs every due timer).
SpecStoreLive ==
  Init /\ [][StoreNext]_vars /\ WF_vars(Tick) /\ WF_vars(ExpiryTimeoutFires)

\* The supervisor of the worker process.
SpecBot == Init /\ [][BotNext]_vars

\* The hook with its operations called in any order.
SpecAgora == Init /\ [][AgoraNext]_vars

\* The hook's file audio.
SpecAudio == Init /\ [][AudioNext]_vars

\* The page driving the hook.
SpecPage == Init /\ [][PageNext]_vars

SpecTeardown == Init /\ [][TeardownNext]_vars

SpecUnmount == Init /\ [][UnmountNext]_vars

SpecStale == Init /\ [][StaleNext]_vars

SpecParticipants == Init /\ [][ParticipantsNext]_vars

SpecPoll == Init /\ [][PollNext]_vars

SpecJoin == Init /\ [][JoinNext]_vars

\* The poll ticks every 100 ms while its interval is armed.
SpecSdkLive == Init /\ [][SdkNext]_vars /\ WF_vars(sdkPollTick /\ AgoraStep)

SpecCommand == Init /\ [][CommandNext]_vars

\* Every armed timer fires unless it is cleared.
SpecCommandLive == Init /\ [][CommandNext]_vars /\ WF_vars(CommandTimeout)

\* ================================================================== claims

\* ---- C1 (as claimed): the status is `connected` only while the most
\* recent connection-state event of the provider reported CONNECTED.
C1_ConnectedOnlyAfterConnectedEvent ==
  agora.status = "connected" => lastEvent = "CONNECTED"

\* ---- C2 (as claimed): when the countdown reaches 0 while connected the
\* automatic leave is triggered once: no second handleLeave() is started by
\* the expiry effect while one it started is still in progress.
C2_AutoLeaveOnce ==
  Cardinality({i \in LeaveSlots : /\ handleLeaveCalls[i].pc # "idle"
                                  /\ handleLeaveCalls[i].by = "expiry"}) <= 1

\* ---- C3 (as claimed): for every identity the first MAX_CONNECTIONS_PER_DAY
\* createSession requests of a day-key succeed and the next one of that
\* day-key is rejected with 429; after the date-key rolls over the usage
\* reads 0 again and sessions can be created again.
C3_QuotaPerDayKey ==
  /\ resp.op = "create" =>
       /\ resp.status \in {201, 429}
       /\ resp.status = 201 <=> resp.prior < MAX_CONNECTIONS_PER_DAY
       /\ resp.status = 429 <=> resp.prior >= MAX_CONNECTIONS_PER_DAY
  /\ \A u \in Identities :
       issued[u][getTodayDateKey(now)] = 0 =>
         getDailyUsage(dailyUsage, u, now).count = 0

\* ---- C4 (as claimed): every session in the store has
\* expiresAt - joinedAt = MAX_SESSION_DURATION_MS.
C4_ExpiryIsJoinedPlusMax ==
  \A id \in DOMAIN sessions :
    sessions[id].expiresAt - sessions[id].joinedAt = MAX_SESSION_DURATION_MS

\* ---- C5 (as claimed): at most one file-sourced audio track is published
\* on the provider client at any time.
C5_OneFileTrackPublished ==
  Cardinality(rtc.localTracks \ {MicTrack}) <= 1

\* ---- C6 (as claimed): a leave() that repeats a finished leave(), or is
\* called while the status is already `disconnected`, leaves the status
\* `disconnected` when it ends.  (leave() has no rejecting path: its body is
\* one try/catch.)
C6_LeaveIdempotent ==
  (hookResp.op = "leave" /\ hookResp.repeat /\ hookResp.result # "pending") =>
    agora.status = "disconnected"

\* ---- C7 (as claimed): when a worker's ready message reports
\* sdk_available false, the start() call of that worker resolves to false,
\* the worker is killed and the handle cleared, and lastError carries the
\* worker's diagnostic when the message supplied one, the generic text
\* otherwise.
C7_ReadyWithoutSdk ==
  (botResp.op = "ready" /\ ~botResp.sdk) =>
    /\ startResult[botResp.worker] = "false"
    /\ workers[botResp.worker] # "running"
    /\ ~isRunning
    /\ lastError = SdkUnavailableError(botResp.error)

\* ---- C8: while the SDK has not loaded, join() rejects with "Agora SDK not
\* loaded", the status stays `disconnected`, and no client handle,
\* microphone track or sampler timer exists.
C8_JoinBeforeSdkLoaded ==
  ~rtc.AgoraRTC =>
    /\ hookResp.op = "join" => hookResp.result = "Agora SDK not loaded"
    /\ agora.status = "disconnected"
    /\ agora.clientRef = 0
    /\ agora.localAudioTrackRef = 0
    /\ ~agora.volumeIntervalRef
    /\ joinCall = "idle"

\* join() has been called without the SDK and rejected.
C8_Witness ==
  /\ ~rtc.AgoraRTC
  /\ hookResp.op = "join"
  /\ hookResp.result = "Agora SDK not loaded"

\* ---- C9 (as claimed): the k-th successful createSession of an identity within one
\* day-key returns usedToday = k and remainingConnections = MAX - k; a request
\* beyond the limit returns 429 with usedToday = MAX and remaining 0.
C9_LimitsInResponse ==
  (resp.op = "create" /\ resp.oneDay) =>
    /\ resp.status = 201 =>
         /\ resp.usedToday = resp.prior + 1
         /\ resp.usedToday \in 1..MAX_CONNECTIONS_PER_DAY
         /\ resp.remaining = MAX_CONNECTIONS_PER_DAY - resp.usedToday
    /\ resp.status = 429 =>
         /\ resp.usedToday = MAX_CONNECTIONS_PER_DAY
         /\ resp.remaining = 0

\* ---- C10: a createSession rejected for quota adds no session, arms no
\* timer and does not increment the usage of the identity.
C10_RejectionChangesNothing ==
  [][(resp'.op = "create" /\ resp'.status = 429) =>
       UNCHANGED <<sessions, timers, dailyUsage, nextId>>]_vars

\* A rejection while the store holds a session.
C10_Witness ==
  /\ resp.op = "create" /\ resp.status = 429
  /\ DOMAIN sessions # {}
  /\ resp.user \in DOMAIN dailyUsage

\* ---- C11 (as claimed): once the status is `error` no provider event moves
\* it out of `error`: the status leaves `error` only in a step of a join()
\* or leave() call.
C11_ErrorIsSticky ==
  [][(agora.status = "error" /\ agora'.status # "error") =>
       hookResp'.op \in {"join", "leave"}]_vars

\* ---- C12: every run of leave() goes through its teardown steps in the
\* order (1) timers, (2) file track, (3) microphone track, (4) transport,
\* (5) participant map and status: the steps a call has reached, while it is
\* suspended and when it ends, are in ascending order.
C12_TeardownOrder ==
  LET Ordered(log) == \A a, b \in DOMAIN log : a < b => log[a] <= log[b]
  IN /\ hookResp.op = "leave" => Ordered(hookResp.steps)
     /\ \A i \in LeaveSlots : Ordered(leaveCalls[i].steps)

\* A leave() that unpublished a file track has gone through all five steps.
C12_Witness ==
  /\ hookResp.op = "leave"
  /\ hookResp.result = "done"
  /\ hookResp.steps = <<1, 2, 2, 3, 4, 5>>

\* ---- C13 (as claimed): every leave() call ends with the client handle
\* released, the participant map empty and the status `disconnected`, also
\* when a provider call inside it failed.
C13_LeaveToleratesFailure ==
  (hookResp.op = "leave" /\ hookResp.result # "pending") =>
    /\ agora.clientRef = 0
    /\ agora.remoteUsers = {}
    /\ agora.status = "disconnected"

\* ---- C14: every stored session has an expiry timeout armed at its
\* creation, due MAX_SESSION_DURATION_MS after it (up to the one clock step
\* the handler may see); no step changes the due time of an armed timeout,
\* so a heartbeat never postpones it; and eventually the store holds, for
\* good, no session whose timeout falls within the modelled clock range:
\* every such session is removed.
C14_SessionEventuallyRemoved ==
  /\ [](\A id \in DOMAIN sessions :
          /\ id \in DOMAIN timers
          /\ timers[id] - sessions[id].joinedAt \in
               {MAX_SESSION_DURATION_MS, MAX_SESSION_DURATION_MS + 1})
  /\ [][\A id \in DOMAIN timers \cap DOMAIN timers' : timers'[id] = timers[id]]_vars
  /\ <>[](\A id \in DOMAIN sessions : timers[id] > MaxTime)

\* The expiry timeout of a session has fired and removed the session.
C14_Witness ==
  /\ resp.op = "expiry"
  /\ resp.id \notin DOMAIN sessions
  /\ resp.id \notin DOMAIN timers

\* ---- C15: endSession(id) answers 200 for a stored session and leaves the
\* store without it and without its expiry timeout; for an id that is not
\* (or no longer) stored it answers 404 and changes neither the sessions nor
\* the timeouts; in both cases no other session is touched.
C15_EndSessionIdempotent ==
  [][resp'.op = "end" =>
       LET id == resp'.id IN
       /\ id \notin DOMAIN sessions'
       /\ id \notin DOMAIN timers'
       /\ DOMAIN sessions' = DOMAIN sessions \ {id}
       /\ \A x \in DOMAIN sessions' : sessions'[x] = sessions[x]
       /\ id \in DOMAIN sessions => resp'.status = 200
       /\ id \notin DOMAIN sessions =>
            resp'.status = 404 /\ UNCHANGED <<sessions, timers>>]_vars

\* endSession has been called for an id that was issued and is gone.
C15_Witness ==
  /\ resp.op = "end"
  /\ resp.status = 404
  /\ resp.id \in 1..nextId

\* ---- C16: a heartbeat for a stored session answers 200 and changes only
\* that session's lastActivity (to the time of the request); for an id that
\* is not stored it answers 404 and changes nothing; in both cases no session
\* is created and no other session, timeout or usage record is touched.
C16_HeartbeatTouchesOnlyActivity ==
  [][resp'.op = "heartbeat" =>
       LET id == resp'.id IN
       /\ DOMAIN sessions' = DOMAIN sessions
       /\ UNCHANGED <<timers, dailyUsage, nextId>>
       /\ \A x \in DOMAIN sessions \ {id} : sessions'[x] = sessions[x]
       /\ id \in DOMAIN sessions =>
            /\ resp'.status = 200
            /\ sessions'[id] = [sessions[id] EXCEPT !.lastActivity = now]
       /\ id \notin DOMAIN sessions =>
            resp'.status = 404 /\ UNCHANGED sessions]_vars

\* A heartbeat for a session that is gone, while another session is stored.
C16_Witness ==
  /\ resp.op = "heartbeat"
  /\ resp.status = 404
  /\ resp.id \in 1..nextId
  /\ DOMAIN sessions # {}

C18_OneMutedMicAfterJoin ==
  /\ []((hookResp.op = "join" /\ hookResp.result = "resolved") =>
          /\ rtc.micTracks = 1
          /\ MicTrack \in rtc.localTracks)
  /\ [][/\ rtc'.micTracks > rtc.micTracks => ~rtc'.micEnabled
        /\ (rtc'.micEnabled /\ ~rtc.micEnabled) => hookResp'.op = "toggleMute"]_vars

\* C19: a join() call in flight ends only by resolving after its publish
\* succeeded or by rejecting, and a rejection leaves the status `error`:
\* a failure of client.join(), createMicrophoneAudioTrack() or publish() is
\* never swallowed.
C19_JoinFailureSurfaces ==
  [][(joinCall # "idle" /\ joinCall' = "idle") =>
       /\ hookResp'.op = "join"
       /\ hookResp'.result \in {"resolved", "rejected"}
       /\ hookResp'.result = "resolved" => joinCall = "publish"
       /\ hookResp'.result = "rejected" => agora'.status = "error"]_vars

\* publish() failed after the microphone track was created.
C19_Witness ==
  /\ hookResp.op = "join"
  /\ hookResp.result = "rejected"
  /\ agora.status = "error"
  /\ agora.localAudioTrackRef # 0
  /\ agora.clientRef # 0

\* C20: when the client goes from CONNECTED to RECONNECTING the listener
\* changes the status to `reconnecting` and nothing else: the track refs,
\* the participant map, the client (with its listeners), the provider's
\* tracks and the calls in flight are as before; when the client returns
\* from RECONNECTING to CONNECTED the status is `connected`.
C20_ReconnectKeepsTracks ==
  [][/\ (rtc.connectionState = "CONNECTED" /\ rtc'.connectionState = "RECONNECTING") =>
          /\ agora' = [agora EXCEPT !.status = "reconnecting"]
          /\ rtc' = [rtc EXCEPT !.connectionState = "RECONNECTING"]
          /\ UNCHANGED <<joinCall, leaveCalls, audioCalls>>
     /\ (rtc.connectionState = "RECONNECTING" /\ rtc'.connectionState = "CONNECTED") =>
          /\ agora' = [agora EXCEPT !.status = "connected"]
          /\ rtc' = [rtc EXCEPT !.connectionState = "CONNECTED"]]_vars

\* RECONNECTING reported after a completed join, with a participant in
\* the map.
C20_Witness ==
  /\ lastEvent = "RECONNECTING"
  /\ agora.status = "reconnecting"
  /\ agora.localAudioTrackRef # 0
  /\ MicTrack \in rtc.localTracks
  /\ agora.remoteUsers # {}
  /\ joinCall = "idle"

\* C21: a heartbeat request that fails changes nothing of the page or of
\* the hook: session id, countdown, both timers, the status and the calls
\* in flight are as before, no handleLeave() is started, and the heartbeat
\* interval is still armed for its next firing.
C21_HeartbeatFailureIsHarmless ==
  [][(pageResp # "heartbeat failed" /\ pageResp' = "heartbeat failed") =>
       /\ UNCHANGED <<page, posting, handleLeaveCalls, rendered, agoraVars>>
       /\ page'.heartbeatRef
       /\ page'.sessionId # 0]_vars

\* A heartbeat failed while connected with the countdown running.
C21_Witness ==
  /\ pageResp = "heartbeat failed"
  /\ agora.status = "connected"
  /\ page.sessionId # 0
  /\ page.countdownRef
  /\ page.timeRemaining > 0

\* C22: while the page is mounted and its effects have run, a session id
\* the page holds is the id of the session created last, and the ref holds
\* it; when the page is unmounted while it holds a session it has not
\* ended, the cleanup leaves the heartbeat and countdown timers stopped,
\* has called leave() and has sent the DELETE of that session, the id taken
\* from the ref.
C22_UnmountEndsSession ==
  /\ []((page.mounted /\ EffectsSettled /\ page.sessionId # 0) =>
          /\ page.sessionId = page.lastId
          /\ sessionIdRef = page.lastId)
  /\ [][(page.mounted /\ ~page'.mounted) =>
          /\ ~page'.heartbeatRef
          /\ ~page'.countdownRef
          /\ hookResp'.op = "leave"
          /\ page'.deleteSent = sessionIdRef
          /\ page.sessionId # 0 => page'.deleteSent = page.lastId]_vars

\* The page is unmounted while connected in its second session.
C22_Witness ==
  /\ ~page.mounted
  /\ page.lastId = 2
  /\ page.deleteSent = 2
  /\ hookResp.op = "leave"
  /\ rendered.isConnected

\* C23 (as claimed): every sendCommandWithResponse() call resolves exactly
\* once and never hangs: a call that is pending has its timer armed, and
\* in the end no call is pending; the response to its command, handled
\* while the call is pending, resolves the call with that response; and a
\* resolved call has no timer armed and no callback registered.
C23_CommandResolvesOnce ==
  /\ [](\A c \in CallIds :
          /\ calls[c].resolves <= 1
          /\ calls[c].pc = "pending" => calls[c].timeout
          /\ calls[c].pc = "resolved" =>
               /\ ~calls[c].timeout
               /\ pendingCallbacks[ResponseType(calls[c].command)] # c)
  /\ [][\A c \in CallIds :
          (/\ cmdResp'.op = "message"
           /\ cmdResp'.answers = c
           /\ stdin' # stdin
           /\ calls[c].pc = "pending") =>
             /\ calls'[c].pc = "resolved"
             /\ calls'[c].value = c]_vars
  /\ <>[](\A c \in CallIds : calls[c].pc # "pending")

\* C24 (as claimed): when the close event of a worker is handled while its
\* start() call is unresolved, the call resolves to false and lastError is
\* the diagnostic synthesized from the exit code (every handler that
\* captures an error for a start() call also resolves that call, so an
\* unresolved call has captured none); when the call is resolved already,
\* the handle is cleared and the mirrored status is neither connected nor
\* playing.
C24_ExitBeforeReady ==
  [][\A w \in Workers :
       (workers[w] # "closed" /\ workers'[w] = "closed" /\ botResp'.op = "close") =>
         IF startResult[w] = "pending"
           THEN /\ startResult'[w] = "false"
                /\ lastError'.kind = "Bot process exited with code "
           ELSE /\ process' = 0
                /\ botStatus' = [isConnected |-> FALSE, isPlaying |-> FALSE]]_vars

\* C25: the stored usage of an identity changes only in a step that creates
\* a session for that identity, and within one day such a step raises the
\* count the identity reads by exactly one; heartbeat, endSession, the
\* expiry timeout, the stale sweep, a limits query, a rejected creation and
\* every request of another identity leave the entry as it is.
C25_UsageOnlyIncrements ==
  [][\A u \in Identities :
       LET created == /\ resp'.op = "create"
                      /\ resp'.status = 201
                      /\ resp'.user = u
                      /\ nextId' = nextId + 1
       IN /\ ~created =>
               /\ (u \in DOMAIN dailyUsage') = (u \in DOMAIN dailyUsage)
               /\ u \in DOMAIN dailyUsage => dailyUsage'[u] = dailyUsage[u]
          /\ (created /\ getTodayDateKey(now') = getTodayDateKey(now)) =>
               getDailyUsage(dailyUsage', u, now').count =
                 getDailyUsage(dailyUsage, u, now).count + 1]_vars

\* A session of an identity with usage was ended and the usage of both
\* identities is still there.
C25_Witness ==
  /\ resp.op = "end"
  /\ resp.status = 200
  /\ \E u \in DOMAIN dailyUsage : dailyUsage[u].count = 2

C27_ListenersNeverAccumulate ==
  /\ [](rtc.listeners <= 1)
  /\ [][/\ rtc'.listeners > rtc.listeners =>
             agora.clientRef = 0 /\ agora'.clientRef # 0
        /\ (/\ hookResp'.op = "leave"
            /\ hookResp'.result \in {"done", "failed"}
            /\ hookResp' # hookResp) =>
               agora'.clientRef = 0 /\ rtc'.listeners = 0]_vars

\* C28: a message whose type ends in `response` is handed to the callback
\* registered under its type, if there is one: that callback leaves the
\* map and its call is resolved, and no other call changes; without a
\* registered callback, and for every unsolicited message, no call and no
\* callback changes.
C28_ResponseDelivery ==
  [][cmdResp'.op = "message" =>
       LET type == cmdResp'.type
           callback == IF endsWithResponse(type) THEN pendingCallbacks[type] ELSE 0
       IN /\ cmdResp'.delivered = callback
          /\ type \in UnsolicitedTypes => callback = 0
          /\ IF callback # 0
               THEN /\ pendingCallbacks' = [pendingCallbacks EXCEPT ![type] = 0]
                    /\ calls[callback].pc = "pending"
                    /\ calls'[callback].pc = "resolved"
                    /\ calls'[callback].resolves = 1
                    /\ \A c \in CallIds \ {callback} : calls'[c] = calls[c]
               ELSE UNCHANGED <<calls, pendingCallbacks>>]_vars

\* A response was delivered to the callback of its type while a call of
\* the other type was pending, and that call is pending still.
C28_Witness ==
  /\ cmdResp.op = "message"
  /\ endsWithResponse(cmdResp.type)
  /\ cmdResp.delivered # 0
  /\ calls[cmdResp.delivered].pc = "resolved"
  /\ calls[cmdResp.delivered].value = cmdResp.answers
  /\ pendingCallbacks[cmdResp.type] = 0
  /\ \E c \in CallIds :
       /\ calls[c].pc = "pending"
       /\ pendingCallbacks[ResponseType(calls[c].command)] = c

\* C29: the participant map has one entry per id (it is keyed by the id, and
\* only an entry has a hasAudio flag); an entry appears only when a
\* user-published handler resumes from its subscribe(), which sets the
\* entry of that participant; user-unpublished changes no key; an entry
\* disappears only by user-left, one at a time, or by leave(); and a
\* leave() that ends leaves the map empty.
C29_ParticipantMap ==
  /\ [](agora.hasAudio \subseteq agora.remoteUsers)
  /\ [][/\ ~(agora'.remoteUsers \subseteq agora.remoteUsers) =>
             /\ hookResp'.op = "user-published"
             /\ hookResp'.result = "resolved"
             /\ Cardinality(agora'.remoteUsers \ agora.remoteUsers) = 1
        /\ (hookResp'.op = "user-published" /\ hookResp'.result = "resolved") =>
             \E u \in RemoteUids :
               /\ rtc.subscribing[u] = "pending"
               /\ agora'.remoteUsers = agora.remoteUsers \cup {u}
               /\ agora'.hasAudio \ {u} = agora.hasAudio \ {u}
        /\ hookResp'.op = "user-unpublished" =>
             /\ agora'.remoteUsers = agora.remoteUsers
             /\ agora'.hasAudio \subseteq agora.hasAudio
        /\ ~(agora.remoteUsers \subseteq agora'.remoteUsers) =>
             \/ hookResp'.op = "leave" /\ agora'.remoteUsers = {}
             \/ /\ hookResp'.op = "none"
                /\ Cardinality(agora.remoteUsers \ agora'.remoteUsers) = 1
                /\ agora'.hasAudio = agora.hasAudio \cap agora'.remoteUsers
        /\ (hookResp'.op = "leave" /\ hookResp'.result \in {"done", "failed"}) =>
             agora'.remoteUsers = {}]_vars

\* C30: a tick of the poll that finds the position at the duration stops
\* the timer and, with a client and a published track, calls unpublish()
\* on the file track; when the auto-stop ends (at once, or when that
\* unpublish() settles) the state is not playing, not paused, position 0,
\* and a resolved unpublish() has taken the track out of the client; the
\* auto-stop arms no timer: only a playAudio() that starts playback does.
C30_PollAutoStop ==
  [][/\ (/\ hookResp'.op = "poll"
         /\ hookResp'.result \in {"pending", "ended"}
         /\ audioCalls'.poll # 0 \/ audioCalls.poll = 0) =>
           /\ ~agora'.audioTimeIntervalRef
           /\ IF agora.clientRef # 0 /\ agora.audioTrackPublishedRef
                THEN /\ audioCalls'.poll = agora.audioFileTrackRef
                     /\ hookResp'.result = "pending"
                ELSE /\ hookResp'.result = "ended"
                     /\ ~agora'.isAudioPlaying
                     /\ ~agora'.isAudioPaused
                     /\ agora'.audioCurrentTime = 0
     /\ (audioCalls.poll # 0 /\ audioCalls'.poll = 0) =>
           /\ hookResp'.op = "poll"
           /\ ~agora'.isAudioPlaying
           /\ ~agora'.isAudioPaused
           /\ agora'.audioCurrentTime = 0
           /\ agora'.audioTimeIntervalRef = agora.audioTimeIntervalRef
           /\ hookResp'.result = "ended" =>
                /\ audioCalls.poll \notin rtc'.localTracks
                /\ ~agora'.audioTrackPublishedRef
     /\ (~agora.audioTimeIntervalRef /\ agora'.audioTimeIntervalRef) =>
           /\ hookResp'.op = "playAudio"
           /\ hookResp'.result = "done"]_vars

\* An auto-stop has ended on a connected client: the track is unpublished
\* and still open, the timer is off and the playback state is reset.
C30_Witness ==
  /\ hookResp.op = "poll"
  /\ hookResp.result = "ended"
  /\ audioCalls.poll = 0
  /\ agora.audioFileTrackRef # 0
  /\ rtc.tracks[agora.audioFileTrackRef] = "open"
  /\ agora.audioFileTrackRef \notin rtc.localTracks
  /\ ~agora.audioTrackPublishedRef
  /\ ~agora.audioTimeIntervalRef
  /\ ~agora.isAudioPlaying
  /\ ~agora.isAudioPaused
  /\ agora.audioCurrentTime = 0
  /\ rtc.connectionState = "CONNECTED"

\* C31: the readiness poll ends: every tick counts one attempt; the tick
\* that finds the SDK sets sdkLoaded and disarms the interval, the tick of
\* attempt maxAttempts that does not find it sets sdkError and disarms the
\* interval, and any other tick changes nothing else; sdkLoaded and
\* sdkError are never both set, the interval is armed exactly while
\* neither is, it is never armed again, and it is disarmed in the end.
C31_SdkPollTerminates ==
  /\ [](/\ ~(agora.sdkLoaded /\ agora.sdkError)
        /\ agora.sdkInterval <=> (~agora.sdkLoaded /\ ~agora.sdkError)
        /\ agora.attempts <= maxAttempts
        /\ agora.sdkError => agora.attempts = maxAttempts)
  /\ [][/\ hookResp'.op = "checkSDK" =>
             /\ agora.sdkInterval
             /\ agora'.attempts = agora.attempts + 1
             /\ IF rtc.AgoraRTC
                  THEN agora'.sdkLoaded /\ ~agora'.sdkInterval
                  ELSE IF agora'.attempts = maxAttempts
                    THEN agora'.sdkError /\ ~agora'.sdkInterval
                    ELSE agora'.sdkInterval
        /\ ~agora.sdkInterval => ~agora'.sdkInterval]_vars
  /\ <>[](~agora.sdkInterval)

\* The poll gave up after its last attempt and the script loaded later.
C31_Witness ==
  /\ agora.sdkError
  /\ ~agora.sdkLoaded
  /\ agora.attempts = maxAttempts
  /\ ~agora.sdkInterval
  /\ rtc.AgoraRTC

\* C32: for every identity the stored usage count of a day-key never
\* exceeds MAX_CONNECTIONS_PER_DAY and, once no createSession request is in
\* flight, equals the number of sessions created for the identity in that
\* day-key.
C32_UsageCountsSessions ==
  \A u \in DOMAIN dailyUsage :
    /\ dailyUsage[u].count <= MAX_CONNECTIONS_PER_DAY
    /\ microtasks = << >> =>
         dailyUsage[u].count = issued[u][dailyUsage[u].dateKey]

\* C33: at most one handleJoin() is in progress at a time, awaiting its
\* session request or the join() of the hook.
C33_OneJoinAttempt ==
  posting + (IF joinCall # "idle" THEN 1 ELSE 0) <= 1

\* C34: a start() call reports success only for a worker whose handshake
\* has succeeded: a call that returns true while a worker is held finds the
\* start() call of that worker already resolved true.
C34_StartAfterHandshake ==
  [][(botResp'.op = "start" /\ botResp'.result = "true")
       => startResult[botResp'.worker] = "true"]_vars

\* C35: at most one worker is running at any time, and the close event or
\* the startup timeout of a worker other than the one the handle refers to
\* leaves the handle, that worker and the mirrored status as they are.
C35_OneWorkerNoStaleEvents ==
  /\ [](Cardinality({w \in Workers : workers[w] = "running"}) <= 1)
  /\ [][(/\ botResp'.op \in {"close", "timeout"}
         /\ process # 0
         /\ botResp'.worker # process)
          => /\ process' = process
             /\ workers'[process] = workers[process]
             /\ botStatus' = botStatus]_vars

\* C36: a call is resolved only with the response to its own command or
\* with null (its timeout or a failed write): the response to the command
\* of one call is never the value of another call.
C36_OwnResponseOnly ==
  \A c \in CallIds :
    calls[c].pc = "resolved" => calls[c].value \in {c, Null}

\* C37: at most one microphone track is created and not closed at any
\* time.
C37_OneMicTrack == rtc.micTracks <= 1

\* C38: while the hook holds a microphone track, isMuted is true exactly
\* when that track is disabled.
C38_MutedMatchesTrack ==
  agora.localAudioTrackRef # 0 => (agora.isMuted <=> ~rtc.micEnabled)

\* C39: when the join() call of a handleJoin() rejects while the page holds
\* the session that handleJoin() created, the page sends the DELETE of
\* that session.
C39_FailedJoinEndsSession ==
  [][(/\ joinCall # "idle"
      /\ joinCall' = "idle"
      /\ hookResp'.result = "rejected"
      /\ page.sessionId # 0)
       => \E i \in LeaveSlots :
            /\ handleLeaveCalls[i].pc # "delete"
            /\ handleLeaveCalls'[i].pc = "delete"]_vars

\* C40: at most one heartbeat interval is armed, and only while the page
\* holds a session id; once the effects of a render have run, only while
\* the status is `connected`; none is armed when a handleLeave() call has
\* started or when the page is unmounted.
C40_HeartbeatOnlyWhileConnected ==
  /\ [](/\ page.heartbeatTimers <= 1
        /\ page.heartbeatTimers > 0 => page.sessionId # 0
        /\ (EffectsSettled /\ page.heartbeatTimers > 0) =>
             agora.status = "connected"
        /\ ~page.mounted => page.heartbeatTimers = 0)
  /\ [][(\/ pageResp' = "handleLeave" /\ pageResp # "handleLeave"
         \/ \E i \in LeaveSlots : /\ handleLeaveCalls[i].pc = "idle"
                                  /\ handleLeaveCalls'[i].pc # "idle")
          => page'.heartbeatTimers = 0]_vars

\* handleLeave() has cleared the heartbeat interval the last commit armed.
C40_Witness ==
  /\ pageResp = "handleLeave"
  /\ page.heartbeatTimers = 0
  /\ rendered.isConnected
  /\ rendered.sessionId # 0
  /\ rendered # Deps

====
